---- MODULE Spec2Model ----
(***************************************************************************)
(* Deployment provisioning engine of IaC-studio: the deployment service,   *)
(* the job handlers HandleProvision / HandleDestroy, the Terraform         *)
(* provisioner (Plan / Apply / Destroy), the executor's working            *)
(* directories and the database state store.                               *)
(*                                                                         *)
(* One step of the model is one access to something shared: a statement    *)
(* against the deployments table, an operation on the working-directory    *)
(* tree, a run of the external tool, an enqueue or a delivery of a job.    *)
(* Purely local computation is folded into the step that follows it.       *)
(***************************************************************************)
EXTENDS Naturals, Sequences, FiniteSets, TLC

(***************************************************************************)
(* Bounds of the model.                                                    *)
(***************************************************************************)
MaxDeployments == 2      \* rows CreateDeployment may insert
MaxTime == 2             \* distinct readings of time.Now().UnixNano()
MaxFaults == 1           \* failures of the environment in one behaviour: database
                         \* statements, file operations, runs of the external tool
MaxRedeliver == 1        \* extra deliveries of jobs (retry, at-least-once)
MaxDestroyRequests == 1  \* DestroyDeployment requests
MaxCancels == 1          \* CancelDeployment requests
MaxDirectCalls == 2      \* provisioner calls made outside a job handler
MaxDisturbances == 1     \* failures, redeliveries, destroy and cancel requests together
MaxNodes == 2            \* nodes of a graph handed to the compiler on its own
MaxStoreCalls == 3       \* calls of the state store on its own

Workers == {1, 2}
Timestamps == 1..MaxTime

(***************************************************************************)
(* Values.                                                                 *)
(***************************************************************************)
NoBlob == ""             \* nil / zero-length []byte, NULL jsonb column
NullJSON == "null"       \* datatypes.JSON([]byte("null"))
ApplyBlobs == {"b1", "b2"}
Blobs == {NoBlob, NullJSON} \cup ApplyBlobs
Len0(b) == b = NoBlob    \* len(b) == 0

\* the state argument of SaveState: nil, or a byte slice
NilState == [isNil |-> TRUE, bytes |-> NoBlob]
Bytes(text) == [isNil |-> FALSE, bytes |-> text]

NoError == ""            \* a nil error

\* terraform outputs as convertOutputs returns them: a non-nil map, here the set
\* of its key/value pairs.  `terraform output` reads them from the state, so
\* they are a function of the state blob.
NoOutputs == {}
OutputsOf(blob) == {<<"n1_id", "id-in-" \o blob>>}

Owner == "u1"
Users == {"u1", "u2"}
Project == [ID |-> "p1", UserID |-> Owner, CloudProvider |-> "aws", Region |-> "eu-west-1"]

(***************************************************************************)
(* The graph compiler.                                                     *)
(***************************************************************************)
\* a node type NewCompiler registers no compiler for
UnknownType == "gcp_instance"

\* (variant: a compiler is registered for that type too)
ResourceTypesWithUnknown ==
    {"aws_instance", "aws_s3_bucket", "aws_security_group",
     "aws_db_instance", "aws_vpc", "aws_subnet", UnknownType}

ResourceTypes ==
    {"aws_instance", "aws_s3_bucket", "aws_security_group",
     "aws_db_instance", "aws_vpc", "aws_subnet"}

Required(type) ==
    CASE type = "aws_instance" -> <<"ami", "instance_type">>
      [] type = "aws_s3_bucket" -> <<"bucket_name">>
      [] type = "aws_security_group" -> <<"name", "description">>
      [] OTHER -> <<>>

\* the first required field the node lacks, in the order Validate tests them
RECURSIVE FirstMissing(_, _)
FirstMissing(fields, props) ==
    IF fields = <<>> THEN ""
    ELSE IF Head(fields) \notin props THEN Head(fields)
    ELSE FirstMissing(Tail(fields), props)

\* (variant: validation accepts every node)
ValidateNothing(node) == NoError

Validate(node) ==
    LET f == FirstMissing(Required(node.Type), node.Properties)
    IN  IF f = "" THEN NoError ELSE "missing required field: " \o f

\* what the value of the "ingress" property of a node may be: absent, a list of
\* rule objects, a list holding something that is no object, or no list at all
IngressKinds == {"none", "rules", "scalars", "other"}

\* whether the resource compiler's Compile(node) panics: SecurityGroupCompiler
\* asserts the type of every ingress rule without checking it
ResourcePanics(node) == node.Type = "aws_security_group" /\ node.Ingress = "scalars"

\* (variant: a provider without a block of its own gets the aws block)
generateProviderDefaultingToAws(config) == <<"aws", config.Region>>

generateProvider(config) ==
    IF config.Provider = "aws" THEN <<"aws", config.Region>> ELSE <<>>

generateOutput(node) == <<node.ID \o "_id", node.Type, node.ID>>

generateVariables == <<"tags">>

EmptyCode == [MainTF |-> <<>>, VariablesTF |-> <<>>, OutputsTF |-> <<>>, ProviderTF |-> <<>>]

\* Compile returning (nil, err)
CompileError(msg) == [err |-> msg, code |-> EmptyCode, hasCode |-> FALSE, panic |-> FALSE]

\* Compile not returning: a run-time panic unwinds through it
CompilePanic ==
    [err |-> "interface conversion: interface {} is not map[string]interface {}",
     code |-> EmptyCode, hasCode |-> FALSE, panic |-> TRUE]

\* Compile's loop over graph.Nodes from position i on, main/outs built so far
RECURSIVE CompileFrom(_, _, _, _, _)
CompileFrom(nodes, i, main, outs, provider) ==
    IF i > Len(nodes)
    THEN [err |-> NoError,
          code |-> [MainTF |-> main, VariablesTF |-> generateVariables,
                    OutputsTF |-> outs, ProviderTF |-> provider],
          hasCode |-> TRUE, panic |-> FALSE]
    ELSE LET node == nodes[i] IN
         IF node.Type \notin ResourceTypes
         THEN CompileError("unsupported resource type: " \o node.Type)
         ELSE IF Validate(node) # NoError
         THEN CompileError("validation failed for " \o node.ID \o ": " \o Validate(node))
         ELSE IF ResourcePanics(node)
         THEN CompilePanic
         ELSE CompileFrom(nodes, i + 1, Append(main, <<node.Type, node.ID>>),
                          Append(outs, generateOutput(node)), provider)

\* (variant: a graph with edges is compiled in the opposite order)
CompileFollowingEdges(graph, cloudConfig) ==
    LET n == Len(graph.Nodes)
        nodes == IF graph.Edges = {} THEN graph.Nodes
                 ELSE [i \in 1..n |-> graph.Nodes[n + 1 - i]]
    IN  CompileFrom(nodes, 1, <<>>, <<>>, generateProvider(cloudConfig))

Compile(graph, cloudConfig) ==
    CompileFrom(graph.Nodes, 1, <<>>, <<>>, generateProvider(cloudConfig))

(***************************************************************************)
(* The project_graphs table, written by the graph handlers (not modelled): *)
(* the stored versions.  NodesJSON and EdgesJSON are FALSE for a nodes or  *)
(* edges column that json.Unmarshal rejects.                               *)
(***************************************************************************)
GraphIDs == {"g_ok", "g_noami", "g_badjson"}

\* a version whose security group has an ingress list holding a scalar
ScalarIngressGraph == "g_scalars"

\* a version whose edges column is not the JSON of a list of edges
BadEdgesGraph == "g_badedges"

Graphs ==
    [g \in GraphIDs \cup {ScalarIngressGraph, BadEdgesGraph} |->
        CASE g \in {"g_ok", BadEdgesGraph} ->
                [NodesJSON |-> TRUE, EdgesJSON |-> g = "g_ok",
                 Nodes |-> <<[ID |-> "n1", Type |-> "aws_instance",
                              Properties |-> {"ami", "instance_type"}, Ingress |-> "none"]>>]
          [] g = "g_noami" ->
                [NodesJSON |-> TRUE, EdgesJSON |-> TRUE,
                 Nodes |-> <<[ID |-> "n1", Type |-> "aws_instance",
                              Properties |-> {"instance_type"}, Ingress |-> "none"]>>]
          [] g = ScalarIngressGraph ->
                [NodesJSON |-> TRUE, EdgesJSON |-> TRUE,
                 Nodes |-> <<[ID |-> "n1", Type |-> "aws_security_group",
                              Properties |-> {"name", "description"},
                              Ingress |-> "scalars"]>>]
          [] OTHER -> [NodesJSON |-> FALSE, EdgesJSON |-> TRUE, Nodes |-> <<>>]]

(***************************************************************************)
(* The deployments table.                                                  *)
(***************************************************************************)
Terminal == {"applied", "failed", "destroyed"}
Statuses == {"pending", "planning", "applying", "destroying"} \cup Terminal

\* the outputs column: NULL, or a JSON object holding the saved outputs and,
\* under the key "logs", the appended log entries
NullOutputs == [null |-> TRUE, data |-> NoOutputs, logs |-> <<>>]

NewRow(id, graph) ==
    [ID |-> id, ProjectID |-> Project.ID, GraphID |-> graph, Status |-> "pending",
     TerraformState |-> NoBlob, Outputs |-> NullOutputs]

\* (variant: the update without its WHERE clause)
UpdateStatusEveryRow(tbl, id, status) ==
    [i \in DOMAIN tbl |-> [tbl[i] EXCEPT !.Status = status]]

\* UPDATE deployments SET status = ? WHERE id = ?
UpdateStatus(tbl, id, status) == [tbl EXCEPT ![id].Status = status]

\* UPDATE deployments SET outputs = ? WHERE id = ?
UpdateOutputs(tbl, id, outputs) == [tbl EXCEPT ![id].Outputs = outputs]

\* UPDATE deployments SET terraform_state = ? WHERE id = ?
UpdateTerraformState(tbl, id, state) == [tbl EXCEPT ![id].TerraformState = state]

\* gorm Save: every column of the row is written from the struct
Update(tbl, row) == [tbl EXCEPT ![row.ID] = row]

\* ORDER BY created_at DESC LIMIT 1 (ids are handed out in creation order)
Latest(tbl) == CHOOSE id \in DOMAIN tbl : \A other \in DOMAIN tbl : other <= id

\* (variant: a nil state is stored as an empty column)
SaveStateColumnEmptyForNil(arg) == IF arg.isNil THEN NoBlob ELSE arg.bytes

\* SaveState's choice of the column value, for its state argument
SaveStateColumn(arg) == IF arg.isNil THEN NullJSON ELSE arg.bytes

\* the same for the provisioner's calls: Destroy passes nil, Apply the state
\* file it read, which is never empty
SaveStateValue(state) == SaveStateColumn(IF state = NoBlob THEN NilState ELSE Bytes(state))

\* (variant: GetState hands out the cleared-state sentinel for an empty column)
GetStateValueNullWhenEmpty(row) ==
    IF Len0(row.TerraformState) THEN NullJSON ELSE row.TerraformState

\* GetState's result for a row
GetStateValue(row) == IF Len0(row.TerraformState) THEN NoBlob ELSE row.TerraformState

\* AppendLog's new outputs column from the row it read
AppendedOutputs(row, entry) ==
    [null |-> FALSE, data |-> row.Outputs.data, logs |-> Append(row.Outputs.logs, entry)]

\* SaveDeploymentOutputs' new outputs column
SavedOutputs(outputs) == [null |-> FALSE, data |-> outputs, logs |-> <<>>]

(***************************************************************************)
(* Working directories: <baseDir>/<deploymentID>/<timestamp>.              *)
(***************************************************************************)
NoDir == <<0, 0>>

\* a directory just made: no state file, no .tf files
EmptyDir == [tfstate |-> NoBlob, hasCode |-> FALSE, code |-> EmptyCode]

EmptyDisk == [leaf |-> <<>>, parent |-> {}]

\* os.MkdirAll: makes the directory and its missing parents
MkdirAll(dk, dir) ==
    [leaf |-> IF dir \in DOMAIN dk.leaf THEN dk.leaf ELSE dk.leaf @@ (dir :> EmptyDir),
     parent |-> dk.parent \cup {dir[1]}]

\* (variant: the state file is created but the blob is not written into it)
WriteStateFileEmpty(dk, dir, blob) == [dk EXCEPT !.leaf[dir].tfstate = NoBlob]

\* os.WriteFile of terraform.tfstate
WriteStateFile(dk, dir, blob) == [dk EXCEPT !.leaf[dir].tfstate = blob]

\* os.WriteFile of main.tf, variables.tf, outputs.tf, provider.tf
WriteCodeFiles(dk, dir, code) ==
    [dk EXCEPT !.leaf[dir].hasCode = TRUE, !.leaf[dir].code = code]

\* os.RemoveAll(workingDir): the directory and what is below it
RemoveAll(dk, dir) ==
    [leaf |-> [x \in DOMAIN dk.leaf \ {dir} |-> dk.leaf[x]], parent |-> dk.parent]

\* (variant: Cleanup is not deferred, the directory stays)
CleanupSkipped(dk, dir) == dk

\* Executor.Cleanup.  os.RemoveAll is taken to succeed: the process removes
\* only what it created itself.
Cleanup(dk, dir) == RemoveAll(dk, dir)

DirExists(dk, dir) == dir \in DOMAIN dk.leaf

(***************************************************************************)
(* Executor.Initialize: the ways it ends, and what it leaves on disk.      *)
(***************************************************************************)
InitializeOutcomes == {"mkdir_failed", "write_failed", "no_terraform", "init_failed", "ok"}

InitializeError(outcome) ==
    CASE outcome = "mkdir_failed" -> "create working dir: permission denied"
      [] outcome = "write_failed" -> "write main.tf: no space left on device"
      [] outcome = "no_terraform" -> "terraform not found in PATH: executable file not found"
      [] outcome = "init_failed" -> "terraform init: exit status 1"
      [] OTHER -> NoError

Initialize(dk, dir, code, outcome) ==
    IF outcome = "mkdir_failed" THEN dk
    ELSE IF outcome = "write_failed" THEN MkdirAll(dk, dir)
    ELSE WriteCodeFiles(MkdirAll(dk, dir), dir, code)

(***************************************************************************)
(* Results of the provisioner.                                             *)
(***************************************************************************)
NilResult ==
    [isNil |-> TRUE, Success |-> FALSE, hasOutputs |-> FALSE, Outputs |-> NoOutputs,
     State |-> NoBlob, ErrorMessage |-> ""]

\* &Result{Success: false, ErrorMessage: err.Error()}
FailedResult(msg) == [NilResult EXCEPT !.isNil = FALSE, !.ErrorMessage = msg]

\* &Result{Success: true, Outputs: ar.Outputs, State: ar.State}
ApplyResult(outputs, state) ==
    [isNil |-> FALSE, Success |-> TRUE, hasOutputs |-> TRUE, Outputs |-> outputs,
     State |-> state, ErrorMessage |-> ""]

\* &Result{Success: true}
DestroyResult == [NilResult EXCEPT !.isNil = FALSE, !.Success = TRUE]

\* (variant: the failed step returns no Result, like the earlier failures)
ApplyStepFailureNil(msg) == [res |-> NilResult, err |-> "executor apply: " \o msg]

\* what Apply returns when exec.Apply failed with msg
ApplyStepFailure(msg) == [res |-> FailedResult(msg), err |-> "executor apply: " \o msg]

\* what Destroy returns when exec.Destroy failed with msg
DestroyStepFailure(msg) == [res |-> FailedResult(msg), err |-> "executor destroy: " \o msg]

\* what Apply and Destroy return when the graph does not compile, the working
\* directory cannot be prepared or Initialize fails
EarlyFailure(prefix, msg) == [res |-> NilResult, err |-> prefix \o msg]

(***************************************************************************)
(* State.                                                                  *)
(***************************************************************************)
VARIABLES
    deployments,  \* the deployments table: id -> row
    queue,        \* jobs waiting for delivery: <<kind, id>> -> copies
    delivered,    \* jobs delivered at least once
    workers,      \* per worker: the handler or provisioner call it runs
    clients,      \* per API client: the service request it runs
    disk,         \* the tree under the base working directory
    applied,      \* per deployment, the blob its last successful Apply returned
    used,         \* how much of each bound the behaviour has used
    request,      \* the graph and cloud config handed to the compiler on its own
    compiled,     \* what Compile made of the request
    store         \* the calls made to the state store on its own

vars == <<deployments, queue, delivered, workers, clients, disk, applied, used,
          request, compiled, store>>

\* no call of the state store on its own yet
NoArg == [isNil |-> TRUE, bytes |-> "none"]
NotRead == [state |-> "none", err |-> "not read"]
NoStoreCalls == [calls |-> 0, saved |-> NoArg, err |-> NoError, got |-> NotRead]

\* no request to the compiler on its own
NoRequest == [Nodes |-> <<>>, Edges |-> {}, Provider |-> "", Region |-> ""]
NotCompiled == [CompileError("") EXCEPT !.err = "not compiled"]

Clients == {"c1"}
Ids == 1..MaxDeployments
JobKinds == {"provision", "destroy"}
Jobs == JobKinds \X Ids

NoRow == NewRow(0, "none")
NoEntry == [Level |-> "", Message |-> ""]

IdleWorker ==
    [pc |-> "idle", caller |-> "none", job |-> "none", op |-> "none", id |-> 0,
     graph |-> "none",
     state |-> NoBlob, dir |-> NoDir, row |-> NoRow, saving |-> NoBlob,
     entry |-> NoEntry, next |-> "none", res |-> NilResult, err |-> NoError,
     ret |-> NoError,
     \* what this invocation has issued so far
     statusWrites |-> <<>>, logWrites |-> <<>>, outputWrites |-> <<>>,
     stateWrites |-> <<>>, events |-> <<>>,
     \* for a call made outside the handlers: whether no other worker was
     \* active since it started, the stored blob when it started, and the blob
     \* the previous successful Apply of the deployment returned
     alone |-> FALSE, before |-> NoBlob, prev |-> NoBlob]

IdleClient == [pc |-> "idle", op |-> "none", id |-> 0, graph |-> "none", statusWrites |-> <<>>]

NothingUsed == [faults |-> 0, redeliver |-> 0, destroys |-> 0, cancels |-> 0, direct |-> 0]

RowExists(id) == id \in DOMAIN deployments

\* what has disturbed the behaviour so far
Disturbances == used.faults + used.redeliver + used.destroys + used.cancels

\* whether the behaviour may hold one more disturbance of the kind
May(kind, max) == used[kind] < max /\ Disturbances < MaxDisturbances

\* whether one more file operation or run of the external tool may fail
MayFail == May("faults", MaxFaults)

\* how a statement against the row of id may end: TRUE it took effect; FALSE it
\* failed (no such row, or a database error)
DbOutcomes(id) ==
    IF ~RowExists(id) THEN {FALSE}
    ELSE {TRUE} \cup (IF MayFail THEN {FALSE} ELSE {})

Charge(id, ok) ==
    IF ok \/ ~RowExists(id) THEN used ELSE [used EXCEPT !.faults = @ + 1]

Failed == [used EXCEPT !.faults = @ + 1]

\* the timestamp of a new working directory of deployment id, as worker w reads
\* it.  time.Now().UnixNano() is the wall clock: a reading may equal the one
\* another running call took.  Readings matter only through equality, so the
\* reading is one a running call of the deployment holds, or the least other one.
InUse(id, w) ==
    {workers[o].dir[2] : o \in {o \in Workers \ {w} : workers[o].dir[1] = id}}

TimestampsFor(id, w) ==
    LET free == Timestamps \ InUse(id, w) IN
    InUse(id, w) \cup {ts \in free : \A other \in free : ts <= other}

\* the idle worker that takes the next invocation (workers are interchangeable)
FirstIdle(w) ==
    /\ workers[w].pc = "idle"
    /\ \A o \in Workers : workers[o].pc = "idle" => w <= o

DbErrorMessage(id) == IF RowExists(id) THEN "get entity failed" ELSE "entity not found"

CloudConfigOf(project) == [Provider |-> project.CloudProvider, Region |-> project.Region]

(***************************************************************************)
(* The provisioner: TerraformProvisioner.Plan / Apply / Destroy, one step  *)
(* at a time.  A worker w runs the call; workers[w].op names it.           *)
(***************************************************************************)
Note(me, event) == [me EXCEPT !.events = Append(@, event)]

ErrorEntry(msg) == [Level |-> "error", Message |-> msg]
InfoEntry(msg) == [Level |-> "info", Message |-> msg]

\* the handler calls AppendLog(entry) and goes on at next
CallAppendLog(me, entry, next) ==
    [me EXCEPT !.pc = "log_get", !.entry = entry, !.next = next,
               !.logWrites = Append(@, entry)]

\* (variant: the outputs are not saved)
AfterApplyWithoutOutputs(me) ==
    IF me.err # NoError
    THEN [CallAppendLog(me, ErrorEntry("apply error: " \o me.err), "mark_failed")
            EXCEPT !.ret = me.err]
    ELSE [me EXCEPT !.pc = "save_state"]

\* (variant: HandleProvision calls Apply again after a failure)
AfterApplyRetrying(me) ==
    IF me.err # NoError
    THEN [me EXCEPT !.pc = "compile", !.err = NoError, !.dir = NoDir]
    ELSE [me EXCEPT !.pc = "save_outputs"]

\* HandleProvision after h.provisioner.Apply returned
AfterApply(me) ==
    IF me.err # NoError
    THEN [CallAppendLog(me, ErrorEntry("apply error: " \o me.err), "mark_failed")
            EXCEPT !.ret = me.err]
    ELSE [me EXCEPT !.pc = "save_outputs"]

\* (variant: HandleDestroy logs the failure and returns nil)
AfterDestroyReturningNil(me) ==
    IF me.err # NoError
    THEN CallAppendLog(me, ErrorEntry("destroy error: " \o me.err), "mark_failed")
    ELSE IF ~me.res.isNil /\ me.res.State # NoBlob
    THEN [me EXCEPT !.pc = "save_destroy_state"]
    ELSE CallAppendLog(me, InfoEntry("destroy completed"), "mark_destroyed")

\* HandleDestroy after h.provisioner.Destroy returned (Destroy's Result never
\* carries a State, so the handler's SaveTerraformState is never reached)
AfterDestroy(me) ==
    IF me.err # NoError
    THEN [CallAppendLog(me, ErrorEntry("destroy error: " \o me.err), "mark_failed")
            EXCEPT !.ret = me.err]
    ELSE IF ~me.res.isNil /\ me.res.State # NoBlob
    THEN [me EXCEPT !.pc = "save_destroy_state"]
    ELSE CallAppendLog(me, InfoEntry("destroy completed"), "mark_destroyed")

\* the call returns out = [res, err]; the deferred Cleanup has run if the
\* executor had been made (dir chosen)
Return(me, out) ==
    LET done == [me EXCEPT !.res = out.res, !.err = out.err,
                           !.events = IF me.dir = NoDir THEN @ ELSE Append(@, "cleanup")]
    IN  IF me.caller = "direct" THEN [done EXCEPT !.pc = "returned"]
        ELSE IF me.job = "provision" THEN AfterApply(done)
        ELSE AfterDestroy(done)

SetWorker(w, rec) == workers' = [workers EXCEPT ![w] = rec]

\* a worker starts a call of the provisioner: it is alone if every other worker
\* is idle, and no running worker is alone any more
Start(w, rec) ==
    workers' = [v \in Workers |->
                  IF v = w
                  THEN [rec EXCEPT !.alone = \A o \in Workers \ {w} : workers[o].pc = "idle"]
                  ELSE [workers[v] EXCEPT !.alone = FALSE]]

CodeOf(me) ==
    IF me.op = "Destroy" THEN EmptyCode
    ELSE Compile(Graphs[me.graph], CloudConfigOf(Project)).code

\* t.compiler.Compile, then the choice of the working directory
CompileStep(w) ==
    LET me == workers[w]
        c == Compile(Graphs[me.graph], CloudConfigOf(Project))
    IN  /\ me.pc = "compile"
        /\ IF c.panic
           THEN \* nothing up to the caller of the handler recovers the panic
                SetWorker(w, [Note(me, "compile") EXCEPT !.pc = "panicked"])
           ELSE IF c.err # NoError
           THEN SetWorker(w, Return(Note(me, "compile"), EarlyFailure("compile graph: ", c.err)))
           ELSE \E ts \in TimestampsFor(me.id, w) :
                  SetWorker(w, [Note(me, "compile") EXCEPT !.pc = "init", !.dir = <<me.id, ts>>])
        /\ UNCHANGED <<deployments, queue, delivered, clients, disk, applied, used>>

\* exec.Initialize(code)
InitializeStep(w) ==
    LET me == workers[w] IN
    /\ me.pc = "init"
    /\ \E outcome \in (IF MayFail THEN InitializeOutcomes ELSE {"ok"}) :
         LET after == Initialize(disk, me.dir, CodeOf(me), outcome) IN
         IF outcome = "ok"
         THEN /\ disk' = after
              /\ SetWorker(w, [Note(me, "initialize") EXCEPT !.pc = "run"])
              /\ used' = used
         ELSE /\ disk' = Cleanup(after, me.dir)
              /\ SetWorker(w, Return(Note(me, "initialize"),
                                     EarlyFailure("executor initialize: ", InitializeError(outcome))))
              /\ used' = Failed
    /\ UNCHANGED <<deployments, queue, delivered, clients, applied>>

\* exec.Plan: terraform plan, then show
PlanRuns == {"terraform plan: exit status 1", NoError}

PlanStep(w) ==
    LET me == workers[w] IN
    /\ me.pc = "run" /\ me.op = "Plan"
    /\ \E msg \in PlanRuns :
         /\ (msg = NoError) => DirExists(disk, me.dir)
         /\ (msg # NoError) => MayFail \/ ~DirExists(disk, me.dir)
         /\ SetWorker(w, Return(Note(me, "tf_plan"),
                                IF msg = NoError THEN [res |-> NilResult, err |-> NoError]
                                ELSE EarlyFailure("executor plan: ", msg)))
         /\ used' = IF msg # NoError /\ DirExists(disk, me.dir) THEN Failed ELSE used
    /\ disk' = Cleanup(disk, me.dir)
    /\ UNCHANGED <<deployments, queue, delivered, clients, applied>>

\* The state blobs terraform may report.  Blobs are opaque and matter only
\* through equality, so a run reports a blob that is stored or held somewhere,
\* or the least one that is not.
Known ==
    ({deployments[d].TerraformState : d \in DOMAIN deployments}
       \cup {workers[o].state : o \in Workers} \cup {workers[o].saving : o \in Workers}
       \cup {workers[o].res.State : o \in Workers}
       \cup {workers[o].row.TerraformState : o \in Workers}
       \cup {applied[d] : d \in Ids})
    \cap ApplyBlobs

ReportedBlobs ==
    LET fresh == ApplyBlobs \ Known IN
    Known \cup {b \in fresh : \A other \in fresh : b = other \/ b = "b1"}

ApplyRuns ==
    {[msg |-> m, outputs |-> NoOutputs, state |-> NoBlob] :
        m \in {"terraform apply: exit status 1", "failed to get state: exit status 1"}}
    \cup {[msg |-> NoError, outputs |-> OutputsOf(b), state |-> b] : b \in ReportedBlobs}

\* exec.Apply: terraform apply, output, show
ApplyStep(w) ==
    LET me == workers[w] IN
    /\ me.pc = "run" /\ me.op = "Apply"
    /\ \E r \in ApplyRuns :
         IF r.msg = NoError
         THEN /\ DirExists(disk, me.dir)
              /\ SetWorker(w, [Note(me, "tf_apply") EXCEPT
                                 !.pc = "save_get", !.saving = r.state,
                                 !.res = ApplyResult(r.outputs, r.state)])
              /\ disk' = disk
              /\ used' = used
         ELSE /\ MayFail \/ ~DirExists(disk, me.dir)
              /\ SetWorker(w, Return(Note(me, "tf_apply"), ApplyStepFailure(r.msg)))
              /\ disk' = Cleanup(disk, me.dir)
              /\ used' = IF DirExists(disk, me.dir) THEN Failed ELSE used
    /\ UNCHANGED <<deployments, queue, delivered, clients, applied>>

\* (variant: Destroy asks the state store whatever it was passed, and prefers
\* what is stored)
DestroyStartPreferringStored(w) ==
    LET me == workers[w] IN
    /\ me.pc = "destroy_start"
    /\ \E ts \in TimestampsFor(me.id, w), ok \in DbOutcomes(me.id) :
         LET stored == IF ok THEN GetStateValue(deployments[me.id]) ELSE NoBlob
             state == IF Len0(stored) THEN me.state ELSE stored
         IN  /\ SetWorker(w, [Note(me, "get_state") EXCEPT
                                !.dir = <<me.id, ts>>, !.state = state,
                                !.pc = IF Len0(state) THEN "init" ELSE "destroy_seed"])
             /\ used' = Charge(me.id, ok)
    /\ UNCHANGED <<deployments, queue, delivered, clients, disk, applied>>

\* Destroy's first lines: the working directory, and GetState when no state
\* was passed
DestroyStart(w) ==
    LET me == workers[w] IN
    /\ me.pc = "destroy_start"
    /\ \E ts \in TimestampsFor(me.id, w),
          ok \in (IF Len0(me.state) THEN DbOutcomes(me.id) ELSE {TRUE}) :
         LET state == IF Len0(me.state) /\ ok THEN GetStateValue(deployments[me.id])
                      ELSE me.state
             noted == IF Len0(me.state) THEN Note(me, "get_state") ELSE me
         IN  /\ SetWorker(w, [noted EXCEPT !.dir = <<me.id, ts>>, !.state = state,
                                !.pc = IF Len0(state) THEN "init" ELSE "destroy_seed"])
             /\ used' = IF Len0(me.state) THEN Charge(me.id, ok) ELSE used
    /\ UNCHANGED <<deployments, queue, delivered, clients, disk, applied>>

\* os.MkdirAll(depDir) and os.WriteFile(terraform.tfstate, state)
SeedOutcomes == {"mkdir_failed", "write_failed", "ok"}

DestroySeed(w) ==
    LET me == workers[w] IN
    /\ me.pc = "destroy_seed"
    /\ \E outcome \in (IF MayFail THEN SeedOutcomes ELSE {"ok"}) :
         /\ used' = IF outcome = "ok" THEN used ELSE Failed
         /\ CASE outcome = "ok" ->
                /\ disk' = WriteStateFile(MkdirAll(disk, me.dir), me.dir, me.state)
                /\ SetWorker(w, [Note(me, "write_state") EXCEPT !.pc = "init"])
           [] outcome = "mkdir_failed" ->
                /\ disk' = Cleanup(disk, me.dir)
                /\ SetWorker(w, Return(me, EarlyFailure("create working dir: ", "permission denied")))
           [] OTHER ->
                /\ disk' = Cleanup(MkdirAll(disk, me.dir), me.dir)
                /\ SetWorker(w, Return(me, EarlyFailure("write state file: ", "no space left on device")))
    /\ UNCHANGED <<deployments, queue, delivered, clients, applied>>

\* exec.Destroy: terraform destroy
DestroyRuns == {"terraform destroy: exit status 1", NoError}

DestroyStep(w) ==
    LET me == workers[w] IN
    /\ me.pc = "run" /\ me.op = "Destroy"
    /\ \E msg \in DestroyRuns :
         IF msg = NoError
         THEN /\ DirExists(disk, me.dir)
              /\ SetWorker(w, [Note(me, "tf_destroy") EXCEPT
                                 !.pc = "save_get", !.saving = NoBlob, !.res = DestroyResult])
              /\ disk' = disk
              /\ used' = used
         ELSE /\ MayFail \/ ~DirExists(disk, me.dir)
              /\ SetWorker(w, Return(Note(me, "tf_destroy"), DestroyStepFailure(msg)))
              /\ disk' = Cleanup(disk, me.dir)
              /\ used' = IF DirExists(disk, me.dir) THEN Failed ELSE used
    /\ UNCHANGED <<deployments, queue, delivered, clients, applied>>

\* the blob the deployment's last successful Apply returned, after this return
\* (kept for the calls made outside the handlers)
Applied(me) ==
    IF me.op = "Apply" /\ me.caller = "direct" THEN [applied EXCEPT ![me.id] = me.res.State]
    ELSE applied

\* stateStore.SaveState, first half: deploymentRepo.GetByID.  Its error ends
\* SaveState, and the provisioner drops SaveState's error.
SaveStateGet(w) ==
    LET me == workers[w] IN
    /\ me.pc = "save_get"
    /\ \E ok \in DbOutcomes(me.id) :
         /\ used' = Charge(me.id, ok)
         /\ IF ok
            THEN /\ SetWorker(w, [me EXCEPT !.pc = "save_upd", !.row = deployments[me.id]])
                 /\ UNCHANGED <<disk, applied>>
            ELSE /\ SetWorker(w, Return(Note(me, "save_state_failed"),
                                        [res |-> me.res, err |-> NoError]))
                 /\ disk' = Cleanup(disk, me.dir)
                 /\ applied' = Applied(me)
    /\ UNCHANGED <<deployments, queue, delivered, clients>>

\* stateStore.SaveState, second half: deploymentRepo.Update of the row read
SaveStateUpdate(w) ==
    LET me == workers[w] IN
    /\ me.pc = "save_upd"
    /\ \E ok \in DbOutcomes(me.id) :
         /\ used' = Charge(me.id, ok)
         /\ deployments' =
              IF ok THEN Update(deployments,
                                [me.row EXCEPT !.TerraformState = SaveStateValue(me.saving)])
              ELSE deployments
         /\ SetWorker(w, Return(Note([me EXCEPT !.row = NoRow],
                                     IF ok THEN "save_state" ELSE "save_state_failed"),
                                [res |-> me.res, err |-> NoError]))
    /\ disk' = Cleanup(disk, me.dir)
    /\ applied' = Applied(me)
    /\ UNCHANGED <<queue, delivered, clients>>

\* a caller other than the job handlers calls the provisioner
CallGraphs == {"g_ok", "g_noami"}
CallStates == {NoBlob, "b1"}

\* the deployment ids a call may name: those of the rows, and one id without a
\* row (ids without a row behave alike)
CallIds ==
    LET unknown == Ids \ DOMAIN deployments IN
    DOMAIN deployments \cup {id \in unknown : \A other \in unknown : id <= other}

DirectCall(w) ==
    /\ FirstIdle(w)
    /\ used.direct < MaxDirectCalls
    /\ \E op \in {"Plan", "Apply", "Destroy"}, id \in CallIds, g \in CallGraphs, st \in CallStates :
         /\ op = "Destroy" => g = "g_ok"
         /\ op # "Destroy" => st = NoBlob
         /\ Start(w, [IdleWorker EXCEPT
                        !.pc = IF op = "Destroy" THEN "destroy_start" ELSE "compile",
                        !.caller = "direct", !.op = op, !.id = id, !.graph = g, !.state = st,
                        !.before = IF RowExists(id) THEN deployments[id].TerraformState ELSE NoBlob,
                        !.prev = applied[id]])
    /\ used' = [used EXCEPT !.direct = @ + 1]
    /\ UNCHANGED <<deployments, queue, delivered, clients, disk, applied>>

\* the caller has its result
DirectReturn(w) ==
    /\ workers[w].pc = "returned"
    /\ SetWorker(w, IdleWorker)
    /\ UNCHANGED <<deployments, queue, delivered, clients, disk, applied, used>>

ProvisionerStep(w) ==
    \/ CompileStep(w)
    \/ InitializeStep(w)
    \/ ApplyStep(w)
    \/ DestroyStart(w)
    \/ DestroySeed(w)
    \/ DestroyStep(w)
    \/ SaveStateGet(w)
    \/ SaveStateUpdate(w)

(***************************************************************************)
(* The provisioner on its own: callers invoke Plan, Apply and Destroy on   *)
(* a database that holds one deployment (id 1; any other id has no row).   *)
(***************************************************************************)
InitialStates == {NoBlob, NullJSON, "b1"}

ProvInit ==
    /\ \E b \in InitialStates :
         deployments = (1 :> [NewRow(1, "g_ok") EXCEPT !.TerraformState = b])
    /\ queue = [j \in Jobs |-> 0]
    /\ delivered = {}
    /\ workers = [w \in Workers |-> IdleWorker]
    /\ clients = [c \in Clients |-> IdleClient]
    /\ disk = EmptyDisk
    /\ applied = [id \in Ids |-> NoBlob]
    /\ used = NothingUsed
    /\ request = NoRequest
    /\ compiled = NotCompiled
    /\ store = NoStoreCalls

ProvNext ==
    /\ \E w \in Workers : DirectCall(w) \/ ProvisionerStep(w) \/ PlanStep(w) \/ DirectReturn(w)
    /\ UNCHANGED <<request, compiled, store>>

ProvSpec == ProvInit /\ [][ProvNext]_vars

(***************************************************************************)
(* The job handlers: ProvisionTaskHandler.HandleProvision / HandleDestroy. *)
(***************************************************************************)
\* (variant: the failure paths write applying again)
MarkedStatusKeepingFailures(pc) ==
    CASE pc = "mark_planning" -> "planning"
      [] pc = "mark_applying" -> "applying"
      [] pc = "mark_applied" -> "applied"
      [] pc = "mark_destroying" -> "destroying"
      [] pc = "mark_destroyed" -> "destroyed"
      [] OTHER -> "applying"

\* the status each status-writing position of the handlers writes
MarkedStatus(pc) ==
    CASE pc = "mark_planning" -> "planning"
      [] pc = "mark_applying" -> "applying"
      [] pc = "mark_applied" -> "applied"
      [] pc = "mark_destroying" -> "destroying"
      [] pc = "mark_destroyed" -> "destroyed"
      [] OTHER -> "failed"

MarkPositions ==
    {"mark_planning", "mark_applying", "mark_applied", "mark_destroying",
     "mark_destroyed", "mark_failed"}

\* (variant: HandleProvision calls Plan once applying is written)
AfterMarkCallingPlan(me) ==
    CASE me.pc = "mark_planning" -> [me EXCEPT !.pc = "load"]
      [] me.pc = "mark_destroying" -> [me EXCEPT !.pc = "load_state"]
      [] me.pc = "mark_applying" -> [me EXCEPT !.pc = "compile", !.op = "Plan"]
      [] OTHER -> [me EXCEPT !.pc = "done"]

\* where the handler goes after the status write at pc
AfterMark(me) ==
    CASE me.pc = "mark_planning" -> [me EXCEPT !.pc = "load"]
      [] me.pc = "mark_destroying" -> [me EXCEPT !.pc = "load_state"]
      [] me.pc = "mark_applying" ->
            \* h.provisioner.Apply(ctx, infra)
            [me EXCEPT !.pc = "compile", !.op = "Apply"]
      [] OTHER -> [me EXCEPT !.pc = "done"]

\* (variant: a provision job whose deployment is already in a terminal status
\* is skipped)
MarkStatusOncePerDeployment(w) ==
    LET me == workers[w]
        skip == /\ me.pc = "mark_planning" /\ RowExists(me.id)
                /\ deployments[me.id].Status \in Terminal
    IN  /\ me.pc \in MarkPositions
        /\ \E ok \in (IF skip THEN {FALSE} ELSE DbOutcomes(me.id)) :
             /\ used' = IF skip THEN used ELSE Charge(me.id, ok)
             /\ deployments' = IF ok THEN UpdateStatus(deployments, me.id, MarkedStatus(me.pc))
                               ELSE deployments
        /\ SetWorker(w, IF skip THEN [me EXCEPT !.pc = "done"]
                        ELSE [AfterMark(me) EXCEPT !.statusWrites = Append(@, MarkedStatus(me.pc))])
        /\ UNCHANGED <<queue, delivered, clients, disk, applied>>

\* h.deploySvc.UpdateDeploymentStatus(ctx, id, status); its error is logged or
\* dropped, never acted on
MarkStatus(w) ==
    LET me == workers[w] IN
    /\ me.pc \in MarkPositions
    /\ \E ok \in DbOutcomes(me.id) :
         /\ used' = Charge(me.id, ok)
         /\ deployments' = IF ok THEN UpdateStatus(deployments, me.id, MarkedStatus(me.pc))
                           ELSE deployments
    /\ SetWorker(w, [AfterMark(me) EXCEPT !.statusWrites = Append(@, MarkedStatus(me.pc))])
    /\ UNCHANGED <<queue, delivered, clients, disk, applied>>

\* (variant: the edges column is not decoded)
LoadForProvisionIgnoringEdges(w) ==
    LET me == workers[w] IN
    /\ me.pc = "load"
    /\ \E ok \in DbOutcomes(me.id) :
         /\ used' = Charge(me.id, ok)
         /\ SetWorker(w,
              IF ~ok THEN [me EXCEPT !.pc = "mark_failed", !.ret = DbErrorMessage(me.id)]
              ELSE IF ~Graphs[deployments[me.id].GraphID].NodesJSON
              THEN [me EXCEPT !.pc = "mark_failed", !.ret = "unmarshal nodes failed"]
              ELSE [me EXCEPT !.pc = "mark_applying", !.graph = deployments[me.id].GraphID])
    /\ UNCHANGED <<deployments, queue, delivered, clients, disk, applied>>

\* HandleProvision's loads: the deployment, its project, its graph, and the
\* decoding of the graph's nodes and edges.  What they read never changes
\* after the row is created, so they are one step.
LoadForProvision(w) ==
    LET me == workers[w] IN
    /\ me.pc = "load"
    /\ \E ok \in DbOutcomes(me.id) :
         /\ used' = Charge(me.id, ok)
         /\ SetWorker(w,
              IF ~ok THEN [me EXCEPT !.pc = "mark_failed", !.ret = DbErrorMessage(me.id)]
              ELSE IF ~Graphs[deployments[me.id].GraphID].NodesJSON
              THEN [me EXCEPT !.pc = "mark_failed", !.ret = "unmarshal nodes failed"]
              ELSE IF ~Graphs[deployments[me.id].GraphID].EdgesJSON
              THEN [me EXCEPT !.pc = "mark_failed", !.ret = "unmarshal edges failed"]
              ELSE [me EXCEPT !.pc = "mark_applying", !.graph = deployments[me.id].GraphID])
    /\ UNCHANGED <<deployments, queue, delivered, clients, disk, applied>>

\* HandleDestroy's load of the deployment: the state it will pass to Destroy
LoadForDestroy(w) ==
    LET me == workers[w] IN
    /\ me.pc = "load_state"
    /\ \E ok \in DbOutcomes(me.id) :
         /\ used' = Charge(me.id, ok)
         /\ SetWorker(w,
              IF ~ok THEN [me EXCEPT !.pc = "mark_failed", !.ret = DbErrorMessage(me.id)]
              ELSE \* h.provisioner.Destroy(ctx, id, state)
                   [me EXCEPT !.pc = "destroy_start", !.op = "Destroy",
                              !.state = deployments[me.id].TerraformState])
    /\ UNCHANGED <<deployments, queue, delivered, clients, disk, applied>>

\* h.deploySvc.SaveDeploymentOutputs(ctx, id, res.Outputs), when res.Outputs != nil
SaveDeploymentOutputs(w) ==
    LET me == workers[w]
        call == ~me.res.isNil /\ me.res.hasOutputs
    IN  /\ me.pc = "save_outputs"
        /\ \E ok \in (IF call THEN DbOutcomes(me.id) ELSE {FALSE}) :
             /\ used' = IF call THEN Charge(me.id, ok) ELSE used
             /\ deployments' = IF ok THEN UpdateOutputs(deployments, me.id, SavedOutputs(me.res.Outputs))
                               ELSE deployments
        /\ SetWorker(w, [me EXCEPT !.pc = "save_state",
                                   !.outputWrites = IF call THEN Append(@, me.res.Outputs) ELSE @])
        /\ UNCHANGED <<queue, delivered, clients, disk, applied>>

\* h.deploySvc.SaveTerraformState(ctx, id, res.State), when res.State != nil;
\* then the handler goes on to AppendLog("apply completed")
SaveTerraformState(w) ==
    LET me == workers[w]
        call == ~me.res.isNil /\ me.res.State # NoBlob
    IN  /\ me.pc = "save_state"
        /\ \E ok \in (IF call THEN DbOutcomes(me.id) ELSE {FALSE}) :
             /\ used' = IF call THEN Charge(me.id, ok) ELSE used
             /\ deployments' = IF ok THEN UpdateTerraformState(deployments, me.id, me.res.State)
                               ELSE deployments
        /\ SetWorker(w, CallAppendLog(
                          [me EXCEPT !.stateWrites = IF call THEN Append(@, me.res.State) ELSE @],
                          InfoEntry("apply completed"), "mark_applied"))
        /\ UNCHANGED <<queue, delivered, clients, disk, applied>>

\* deploymentService.AppendLog, first half: deployRepo.GetByID
AppendLogGet(w) ==
    LET me == workers[w] IN
    /\ me.pc = "log_get"
    /\ \E ok \in DbOutcomes(me.id) :
         /\ used' = Charge(me.id, ok)
         /\ SetWorker(w, IF ok THEN [me EXCEPT !.pc = "log_upd", !.row = deployments[me.id]]
                         ELSE [me EXCEPT !.pc = me.next, !.next = "none", !.entry = NoEntry])
    /\ UNCHANGED <<deployments, queue, delivered, clients, disk, applied>>

\* deploymentService.AppendLog, second half: the update of the outputs column
AppendLogUpdate(w) ==
    LET me == workers[w] IN
    /\ me.pc = "log_upd"
    /\ \E ok \in DbOutcomes(me.id) :
         /\ used' = Charge(me.id, ok)
         /\ deployments' = IF ok THEN UpdateOutputs(deployments, me.id,
                                                   AppendedOutputs(me.row, me.entry))
                           ELSE deployments
    /\ SetWorker(w, [me EXCEPT !.pc = me.next, !.next = "none", !.entry = NoEntry,
                               !.row = NoRow])
    /\ UNCHANGED <<queue, delivered, clients, disk, applied>>

HandlerStep(w) ==
    \/ MarkStatus(w)
    \/ LoadForProvision(w)
    \/ LoadForDestroy(w)
    \/ SaveDeploymentOutputs(w)
    \/ SaveTerraformState(w)
    \/ AppendLogGet(w)
    \/ AppendLogUpdate(w)

(***************************************************************************)
(* The queue: delivery of a job to a worker, at least once.                *)
(***************************************************************************)
\* (variant: a job waits while another handler works on its deployment)
DeliverUnderLock(w) ==
    /\ FirstIdle(w)
    /\ \E j \in Jobs :
         /\ queue[j] > 0
         /\ \A o \in Workers : workers[o].pc # "idle" => workers[o].id # j[2]
         /\ queue' = [queue EXCEPT ![j] = @ - 1]
         /\ delivered' = delivered \cup {j}
         /\ SetWorker(w, [IdleWorker EXCEPT
                        !.caller = "handler", !.job = j[1], !.id = j[2],
                        !.pc = IF j[1] = "provision" THEN "mark_planning" ELSE "mark_destroying"])
    /\ UNCHANGED <<deployments, clients, disk, applied, used>>

Deliver(w) ==
    /\ FirstIdle(w)
    /\ \E j \in Jobs :
         /\ queue[j] > 0
         /\ queue' = [queue EXCEPT ![j] = @ - 1]
         /\ delivered' = delivered \cup {j}
         /\ SetWorker(w, [IdleWorker EXCEPT
                        !.caller = "handler", !.job = j[1], !.id = j[2],
                        !.pc = IF j[1] = "provision" THEN "mark_planning" ELSE "mark_destroying"])
    /\ UNCHANGED <<deployments, clients, disk, applied, used>>

\* the handler returns workers[w].ret to the queue
Finish(w) ==
    /\ workers[w].pc = "done"
    /\ SetWorker(w, IdleWorker)
    /\ UNCHANGED <<deployments, queue, delivered, clients, disk, applied, used>>

\* a job already delivered is delivered again: a retry after an error, or the
\* queue's at-least-once delivery
Redeliver ==
    /\ May("redeliver", MaxRedeliver)
    /\ \E j \in delivered : queue' = [queue EXCEPT ![j] = @ + 1]
    /\ used' = [used EXCEPT !.redeliver = @ + 1]
    /\ UNCHANGED <<deployments, delivered, workers, clients, disk, applied>>

(***************************************************************************)
(* The deployment service, called by the project's owner.                  *)
(***************************************************************************)
SetClient(c, rec) == clients' = [clients EXCEPT ![c] = rec]

Active == {"pending", "planning", "applying"}

\* CreateDeployment up to the check of the latest deployment of the project
CreateCheck(c) ==
    /\ clients[c].pc = "idle"
    /\ Cardinality(DOMAIN deployments) < MaxDeployments
    /\ \E g \in GraphIDs,
          ok \in (IF DOMAIN deployments = {} THEN {FALSE} ELSE DbOutcomes(Latest(deployments))) :
         /\ ok => deployments[Latest(deployments)].Status \notin Active
         /\ used' = IF DOMAIN deployments = {} THEN used ELSE Charge(Latest(deployments), ok)
         /\ SetClient(c, [IdleClient EXCEPT !.pc = "create_insert", !.op = "create", !.graph = g])
    /\ UNCHANGED <<deployments, queue, delivered, workers, disk, applied>>

\* s.deployRepo.Create(ctx, d)
CreateInsert(c) ==
    LET id == Cardinality(DOMAIN deployments) + 1 IN
    /\ clients[c].pc = "create_insert"
    /\ id <= MaxDeployments
    /\ deployments' = deployments @@ (id :> NewRow(id, clients[c].graph))
    /\ SetClient(c, [clients[c] EXCEPT !.pc = "create_enqueue", !.id = id])
    /\ UNCHANGED <<queue, delivered, workers, disk, applied, used>>

\* s.asynqClient.EnqueueContext; on its error the row is marked failed
CreateEnqueue(c) ==
    LET id == clients[c].id IN
    /\ clients[c].pc = "create_enqueue"
    /\ \E enqueued \in BOOLEAN :
         IF enqueued
         THEN /\ queue' = [queue EXCEPT ![<<"provision", id>>] = @ + 1]
              /\ UNCHANGED deployments
         ELSE /\ deployments' = UpdateStatus(deployments, id, "failed")
              /\ UNCHANGED queue
    /\ SetClient(c, IdleClient)
    /\ UNCHANGED <<delivered, workers, disk, applied, used>>

\* DestroyDeployment up to the enqueue of the destroy job
DestroyRequest(c) ==
    /\ clients[c].pc = "idle"
    /\ May("destroys", MaxDestroyRequests)
    /\ \E id \in DOMAIN deployments :
         /\ queue' = [queue EXCEPT ![<<"destroy", id>>] = @ + 1]
         /\ SetClient(c, [IdleClient EXCEPT !.pc = "destroy_mark", !.op = "destroy", !.id = id])
    /\ used' = [used EXCEPT !.destroys = @ + 1]
    /\ UNCHANGED <<deployments, delivered, workers, disk, applied>>

\* (variant: DestroyDeployment marks the row itself)
DestroyRequestStatusDestroying == "destroying"

\* the status DestroyDeployment writes after the enqueue
DestroyRequestStatus == "pending"

\* _ = s.deployRepo.UpdateStatus(ctx, d.ID, "pending")
DestroyMark(c) ==
    LET me == clients[c] IN
    /\ me.pc = "destroy_mark"
    /\ \E ok \in DbOutcomes(me.id) :
         /\ used' = Charge(me.id, ok)
         /\ deployments' = IF ok THEN UpdateStatus(deployments, me.id, DestroyRequestStatus)
                           ELSE deployments
    /\ SetClient(c, IdleClient)
    /\ UNCHANGED <<queue, delivered, workers, disk, applied>>

\* (variant: the cancel also clears what the deployment has stored)
CancelDeploymentClearingState(c) ==
    /\ clients[c].pc = "idle"
    /\ May("cancels", MaxCancels)
    /\ \E id \in DOMAIN deployments :
         deployments' = UpdateTerraformState(UpdateStatus(deployments, id, "failed"),
                                             id, NullJSON)
    /\ used' = [used EXCEPT !.cancels = @ + 1]
    /\ UNCHANGED <<queue, delivered, workers, clients, disk, applied>>

\* CancelDeployment: the row is marked failed
CancelDeployment(c) ==
    /\ clients[c].pc = "idle"
    /\ May("cancels", MaxCancels)
    /\ \E id \in DOMAIN deployments :
         deployments' = UpdateStatus(deployments, id, "failed")
    /\ used' = [used EXCEPT !.cancels = @ + 1]
    /\ UNCHANGED <<queue, delivered, workers, clients, disk, applied>>

ServiceStep(c) ==
    \/ CreateCheck(c)
    \/ CreateInsert(c)
    \/ CreateEnqueue(c)
    \/ DestroyRequest(c)
    \/ DestroyMark(c)
    \/ CancelDeployment(c)

(***************************************************************************)
(* The engine: API clients, the queue and the workers, from an empty       *)
(* deployments table.                                                      *)
(***************************************************************************)
Init ==
    /\ deployments = <<>>
    /\ queue = [j \in Jobs |-> 0]
    /\ delivered = {}
    /\ workers = [w \in Workers |-> IdleWorker]
    /\ clients = [c \in Clients |-> IdleClient]
    /\ disk = EmptyDisk
    /\ applied = [id \in Ids |-> NoBlob]
    /\ used = NothingUsed
    /\ request = NoRequest
    /\ compiled = NotCompiled
    /\ store = NoStoreCalls

WorkerStep(w) == Deliver(w) \/ HandlerStep(w) \/ ProvisionerStep(w) \/ Finish(w)

Next ==
    /\ \/ \E c \in Clients : ServiceStep(c)
       \/ \E w \in Workers : WorkerStep(w)
       \/ Redeliver
    /\ UNCHANGED <<request, compiled, store>>

Spec == Init /\ [][Next]_vars

(***************************************************************************)
(* The engine from the moment a destroy has been requested: deployment 1   *)
(* went through its provision, DestroyDeployment has enqueued the destroy  *)
(* job and set the status back to pending.  The bounds on failures,        *)
(* redeliveries and further requests count from here.                      *)
(***************************************************************************)
\* the row a completed provision of g_ok leaves
ProvisionedRow ==
    [NewRow(1, "g_ok") EXCEPT
        !.TerraformState = "b1",
        !.Outputs = AppendedOutputs([Outputs |-> SavedOutputs(OutputsOf("b1"))],
                                    InfoEntry("apply completed"))]

\* the row a provision of g_noami leaves: nothing was applied
UnprovisionedRow ==
    [NewRow(1, "g_noami") EXCEPT
        !.Outputs = AppendedOutputs(NewRow(1, "g_noami"),
            ErrorEntry("apply error: compile graph: " \o Compile(Graphs["g_noami"],
                           CloudConfigOf(Project)).err))]

DestroyInit ==
    /\ \/ /\ deployments = <<ProvisionedRow>>
          /\ disk = Cleanup(MkdirAll(EmptyDisk, <<1, 1>>), <<1, 1>>)
       \/ deployments = <<UnprovisionedRow>> /\ disk = EmptyDisk
    /\ queue = [j \in Jobs |-> IF j = <<"destroy", 1>> THEN 1 ELSE 0]
    /\ delivered = {<<"provision", 1>>}
    /\ workers = [w \in Workers |-> IdleWorker]
    /\ clients = [c \in Clients |-> IdleClient]
    /\ applied = [id \in Ids |-> NoBlob]
    /\ used = NothingUsed
    /\ request = NoRequest
    /\ compiled = NotCompiled
    /\ store = NoStoreCalls

DestroySpec == DestroyInit /\ [][Next]_vars

(***************************************************************************)
(* The compiler on its own: Compile is called once with a graph and a      *)
(* cloud config drawn from the sets below.                                 *)
(***************************************************************************)
\* the property names Validate looks at
PropertyNames == {"ami", "instance_type", "bucket_name", "name", "description"}

NodeIDs == <<"n1", "n2", "n3", "n4">>

\* every graph of one node: any type, any set of properties, any ingress
SingleNodeGraphs ==
    {<<[ID |-> NodeIDs[1], Type |-> t, Properties |-> ps, Ingress |-> k]>> :
        t \in ResourceTypes \cup {UnknownType}, ps \in SUBSET PropertyNames,
        k \in IngressKinds}

\* the nodes longer graphs are made of: a valid instance, an instance without
\* ami, a valid bucket, a security group whose ingress list holds a scalar,
\* and a node of a type outside the catalog
NodeShapes ==
    {[Type |-> "aws_instance", Properties |-> {"ami", "instance_type"}, Ingress |-> "none"],
     [Type |-> "aws_instance", Properties |-> {"instance_type"}, Ingress |-> "none"],
     [Type |-> "aws_s3_bucket", Properties |-> {"bucket_name"}, Ingress |-> "none"],
     [Type |-> "aws_security_group", Properties |-> {"name", "description"},
      Ingress |-> "scalars"],
     [Type |-> UnknownType, Properties |-> {}, Ingress |-> "none"]}

\* the nodes of a graph get their IDs by position
WithIDs(shapes) ==
    [i \in DOMAIN shapes |->
        [ID |-> NodeIDs[i], Type |-> shapes[i].Type,
         Properties |-> shapes[i].Properties, Ingress |-> shapes[i].Ingress]]

LongerGraphs ==
    UNION {{WithIDs(shapes) : shapes \in [1..n -> NodeShapes]} : n \in 2..MaxNodes}

\* the edge sets of a graph: none, or one edge between the first two node IDs
EdgeSets == {{}, {[ID |-> "e1", From |-> NodeIDs[2], To |-> NodeIDs[1], Type |-> "depends_on"]}}

CompileRequests ==
    {[Nodes |-> nodes, Edges |-> edges, Provider |-> provider, Region |-> Project.Region] :
        nodes \in {<<>>} \cup SingleNodeGraphs \cup LongerGraphs,
        edges \in EdgeSets,
        provider \in {"aws", "gcp"}}

CompileInit ==
    /\ request \in CompileRequests
    /\ compiled = NotCompiled
    /\ store = NoStoreCalls
    /\ deployments = <<>>
    /\ queue = [j \in Jobs |-> 0]
    /\ delivered = {}
    /\ workers = [w \in Workers |-> IdleWorker]
    /\ clients = [c \in Clients |-> IdleClient]
    /\ disk = EmptyDisk
    /\ applied = [id \in Ids |-> NoBlob]
    /\ used = NothingUsed

\* c.Compile(graph, cloudConfig)
CompileCall ==
    /\ compiled = NotCompiled
    /\ compiled' = Compile([Nodes |-> request.Nodes, Edges |-> request.Edges],
                           [Provider |-> request.Provider, Region |-> request.Region])
    /\ UNCHANGED <<request, deployments, queue, delivered, workers, clients, disk,
                   applied, used, store>>

CompileNext == CompileCall

CompileSpec == CompileInit /\ [][CompileNext]_vars

(***************************************************************************)
(* The state store on its own: SaveState and GetState are called, one      *)
(* after the other, for deployment 1, whose state was never saved before.  *)
(***************************************************************************)
\* the state arguments: nil, an empty slice, the text null, and blobs
StoreArgs == {NilState} \cup {Bytes(t) : t \in Blobs}

StoreInit ==
    /\ deployments = <<NewRow(1, "g_ok")>>
    /\ store = NoStoreCalls
    /\ queue = [j \in Jobs |-> 0]
    /\ delivered = {}
    /\ workers = [w \in Workers |-> IdleWorker]
    /\ clients = [c \in Clients |-> IdleClient]
    /\ disk = EmptyDisk
    /\ applied = [id \in Ids |-> NoBlob]
    /\ used = NothingUsed
    /\ request = NoRequest
    /\ compiled = NotCompiled

\* DatabaseStateStore.SaveState(ctx, 1, arg): GetByID, then Update
StoreSave ==
    /\ store.calls < MaxStoreCalls
    /\ \E arg \in StoreArgs, read \in DbOutcomes(1) :
         LET row == [deployments[1] EXCEPT !.TerraformState = SaveStateColumn(arg)]
         IN  \E written \in (IF read THEN DbOutcomes(1) ELSE {FALSE}) :
               /\ deployments' = IF written THEN Update(deployments, row) ELSE deployments
               /\ used' = IF written THEN used ELSE Failed
               /\ store' = [calls |-> store.calls + 1, saved |-> arg, got |-> NotRead,
                            err |-> IF ~read THEN DbErrorMessage(1)
                                    ELSE IF written THEN NoError ELSE "save state failed"]
    /\ UNCHANGED <<queue, delivered, workers, clients, disk, applied, request, compiled>>

\* DatabaseStateStore.GetState(ctx, 1)
StoreGet ==
    /\ store.calls < MaxStoreCalls
    /\ \E read \in DbOutcomes(1) :
         /\ used' = Charge(1, read)
         /\ store' = [store EXCEPT
                        !.calls = @ + 1,
                        !.got = IF read THEN [state |-> GetStateValue(deployments[1]),
                                              err |-> NoError]
                                ELSE [state |-> NoBlob, err |-> DbErrorMessage(1)]]
    /\ UNCHANGED <<deployments, queue, delivered, workers, clients, disk, applied,
                   request, compiled>>

StoreNext == StoreSave \/ StoreGet

StoreSpec == StoreInit /\ [][StoreNext]_vars

(***************************************************************************)
(* The handlers on their own: a deployment was created with any stored     *)
(* graph version, its provision job is queued, and its destroy may have    *)
(* been requested already.  The workers take their steps fairly: the       *)
(* database and terraform answer, and no worker process dies.              *)
(***************************************************************************)
\* the panic leaves the handler: the invocation is over without a return
Unwind(w) ==
    /\ workers[w].pc = "panicked"
    /\ SetWorker(w, IdleWorker)
    /\ UNCHANGED <<deployments, queue, delivered, clients, disk, applied, used>>

HandlerInit ==
    /\ \E g \in DOMAIN Graphs : deployments = <<NewRow(1, g)>>
    /\ \E destroys \in 0..MaxDestroyRequests :
         queue = [j \in Jobs |-> CASE j = <<"provision", 1>> -> 1
                                  [] j = <<"destroy", 1>> -> destroys
                                  [] OTHER -> 0]
    /\ delivered = {}
    /\ workers = [w \in Workers |-> IdleWorker]
    /\ clients = [c \in Clients |-> IdleClient]
    /\ disk = EmptyDisk
    /\ applied = [id \in Ids |-> NoBlob]
    /\ used = NothingUsed
    /\ request = NoRequest
    /\ compiled = NotCompiled
    /\ store = NoStoreCalls

HandlerWorkerStep(w) ==
    /\ WorkerStep(w) \/ Unwind(w)
    /\ UNCHANGED <<request, compiled, store>>

HandlerNext == \E w \in Workers : HandlerWorkerStep(w)

HandlerSpec ==
    /\ HandlerInit /\ [][HandlerNext]_vars
    /\ \A w \in Workers : WF_vars(HandlerWorkerStep(w))

(***************************************************************************)
(* Reading the state: what the properties below speak about.               *)
(***************************************************************************)
\* TerraformProvisioner.GetState -> DatabaseStateStore.GetState
GetState(id) ==
    IF RowExists(id) THEN [state |-> GetStateValue(deployments[id]), err |-> NoError]
    ELSE [state |-> NoBlob, err |-> "entity not found"]

Has(me, event) == \E i \in DOMAIN me.events : me.events[i] = event

\* every occurrence of event a in the call's trace is before every one of b
Before(me, a, b) ==
    \A i, j \in DOMAIN me.events : me.events[i] = a /\ me.events[j] = b => i < j

\* worker w's call of the provisioner returns to its caller in this step
Returns(w) == workers[w].pc \notin {"idle", "returned"} /\ workers'[w].pc = "returned"

Returned(w, op) == workers[w].pc = "returned" /\ workers[w].op = op

\* worker w takes this step
Steps(w) == workers'[w] # workers[w] /\ workers[w].pc # "idle"

NoDirectoryAccumulates ==
    (\A w \in Workers : workers[w].pc = "idle") => disk = EmptyDisk

(***************************************************************************)
(* Destroy and the stored state (properties of ProvSpec).                  *)
(***************************************************************************)
\* what one step of worker w's Destroy must respect, when it has a prior state
SeededDestroyStep(w) ==
    LET me == workers[w]
        now == workers'[w]
    IN  (now.op = "Destroy" /\ now.state # NoBlob /\ now.pc # "idle") =>
          \* the blob goes verbatim into the state file
          /\ (me.pc = "destroy_seed" /\ now.pc = "init")
                => disk'.leaf[now.dir].tfstate = now.state
          \* the state file is written before Initialize, Initialize runs
          \* before the external destroy
          /\ Has(now, "initialize") => Has(now, "write_state")
          /\ Has(now, "tf_destroy") => Has(now, "initialize")
          /\ Before(now, "write_state", "initialize")
          /\ Before(now, "initialize", "tf_destroy")
          \* the store is written only after the external destroy succeeded,
          \* and then it is cleared
          /\ (Steps(w) /\ deployments' # deployments)
                => /\ Has(me, "tf_destroy") /\ me.res.Success
                   /\ deployments'[me.id].TerraformState = NullJSON
          \* a Destroy that failed has written nothing to the store
          /\ (now.pc = "returned" /\ now.err # NoError) => ~Has(now, "save_state")

\* C7: a Destroy with a non-empty prior state writes the blob verbatim as the
\* state file before Initialize and before the external destroy step; the
\* stored state is cleared only after the external destroy succeeded, and a
\* failed Destroy leaves the stored blob as it was.
DestroySeedsThenClears == [][\A w \in Workers : SeededDestroyStep(w)]_vars

\* C7 happens: a Destroy that was passed a blob has seeded, initialized,
\* destroyed, cleared the store and returned
SeededDestroyCompleted ==
    \E w \in Workers :
        /\ Returned(w, "Destroy") /\ workers[w].state \in ApplyBlobs
        /\ workers[w].events = <<"write_state", "initialize", "tf_destroy", "save_state", "cleanup">>
        /\ deployments[workers[w].id].TerraformState = NullJSON

\* C8: after two sequential successful Apply calls for a deployment that
\* returned b1 and then b2, GetState returns exactly b2.
LastApplyWins ==
    \A w \in Workers :
        (/\ Returned(w, "Apply") /\ workers[w].alone
         /\ workers[w].res.Success
         /\ workers[w].prev \in ApplyBlobs /\ workers[w].prev # workers[w].res.State)
            => GetState(workers[w].id) = [state |-> workers[w].res.State, err |-> NoError]

\* C9: Apply persists the state exactly on success: after an Apply that
\* returned Success = true, GetState gives the returned blob; after an Apply
\* that returned an error, the stored blob is what it was before the call.
ApplyPersistsOnSuccess ==
    \A w \in Workers :
        (Returned(w, "Apply") /\ workers[w].alone) =>
            IF workers[w].err = NoError
            THEN workers[w].res.Success
                   /\ GetState(workers[w].id).err = NoError
                   /\ GetState(workers[w].id).state = workers[w].res.State
            ELSE RowExists(workers[w].id)
                   => deployments[workers[w].id].TerraformState = workers[w].before

(***************************************************************************)
(* The provisioner's results (properties of ProvSpec).                     *)
(***************************************************************************)
StepPrefix(op) == IF op = "Apply" THEN "executor apply: " ELSE "executor destroy: "

\* C10 as stated: whenever Apply or Destroy returns an error, it also returns
\* a Result with Success = false and a non-empty ErrorMessage.
ErrorAlwaysWithResult ==
    \A w \in Workers :
        (workers[w].pc = "returned" /\ workers[w].op \in {"Apply", "Destroy"}
            /\ workers[w].err # NoError)
          => /\ ~workers[w].res.isNil
             /\ ~workers[w].res.Success
             /\ workers[w].res.ErrorMessage # ""

\* C10, amended: an error of Apply or Destroy comes with a Result exactly when
\* the external apply / destroy step ran and failed; the Result then has
\* Success = false and carries the step's message, which the error wraps.  An
\* error from the compiler, from seeding the state file or from Initialize
\* comes with no Result at all.
ErrorWithResultIffStepFailed ==
    \A w \in Workers :
        LET me == workers[w] IN
        (me.pc = "returned" /\ me.op \in {"Apply", "Destroy"} /\ me.err # NoError) =>
            IF Has(me, "tf_apply") \/ Has(me, "tf_destroy")
            THEN /\ ~me.res.isNil /\ ~me.res.Success
                 /\ me.res.ErrorMessage # ""
                 /\ me.err = StepPrefix(me.op) \o me.res.ErrorMessage
            ELSE me.res = NilResult

\* C10 happens: an Apply whose external step failed has returned its error
StepFailureReturned ==
    \E w \in Workers :
        /\ Returned(w, "Apply") /\ Has(workers[w], "tf_apply")
        /\ workers[w].err # NoError /\ ~workers[w].res.isNil

(***************************************************************************)
(* The handlers' writes (properties of Spec).                              *)
(***************************************************************************)
\* worker w's HandleProvision invocation is about to return
ProvisionDone(w) == workers[w].pc = "done" /\ workers[w].job = "provision"

\* C1: a HandleProvision invocation whose loads succeed and whose Apply
\* succeeds issues exactly the status writes planning, applying, applied, one
\* write of the returned outputs, one of the returned state blob and one info
\* log "apply completed", and returns no error; in a behaviour that nothing
\* has disturbed the row then holds that status, those outputs, that blob and
\* that log.
SuccessfulProvisionWrites ==
    \A w \in Workers :
        LET me == workers[w] IN
        (ProvisionDone(w) /\ Has(me, "tf_apply") /\ me.err = NoError) =>
            /\ me.statusWrites = <<"planning", "applying", "applied">>
            /\ me.res.Success /\ me.res.State \in ApplyBlobs
            /\ me.outputWrites = <<me.res.Outputs>>
            /\ me.stateWrites = <<me.res.State>>
            /\ me.logWrites = <<InfoEntry("apply completed")>>
            /\ me.ret = NoError
            /\ Disturbances = 0 =>
                 /\ deployments[me.id].Status = "applied"
                 /\ deployments[me.id].TerraformState = me.res.State
                 /\ deployments[me.id].Outputs =
                      [null |-> FALSE, data |-> me.res.Outputs,
                       logs |-> <<InfoEntry("apply completed")>>]

\* C1 happens: a provision whose Apply succeeded is done and the deployment is
\* applied
ProvisionSucceeded ==
    \E w \in Workers :
        /\ ProvisionDone(w) /\ Has(workers[w], "tf_apply") /\ workers[w].err = NoError
        /\ deployments[workers[w].id].Status = "applied"
        /\ deployments[workers[w].id].TerraformState \in ApplyBlobs

\* C2: a HandleProvision invocation whose Apply returns an error issues
\* exactly the status writes planning, applying, failed and exactly one log,
\* of level error and message "apply error: <cause>"; it writes no outputs and
\* no state blob, and it returns the error Apply returned.
FailedProvisionWrites ==
    \A w \in Workers :
        LET me == workers[w] IN
        (ProvisionDone(w) /\ me.err # NoError) =>
            /\ me.statusWrites = <<"planning", "applying", "failed">>
            /\ me.logWrites = <<ErrorEntry("apply error: " \o me.err)>>
            /\ me.outputWrites = <<>>
            /\ me.stateWrites = <<>>
            /\ ~Has(me, "save_state")
            /\ me.ret = me.err
            /\ Disturbances = 0 =>
                 /\ deployments[me.id].Status = "failed"
                 /\ deployments[me.id].TerraformState = NoBlob
                 /\ deployments[me.id].Outputs =
                      [null |-> FALSE, data |-> NoOutputs,
                       logs |-> <<ErrorEntry("apply error: " \o me.err)>>]

\* C2 happens: a provision whose external apply step failed is done
ProvisionFailedInApply ==
    \E w \in Workers :
        /\ ProvisionDone(w) /\ Has(workers[w], "tf_apply")
        /\ workers[w].err = "executor apply: terraform apply: exit status 1"
        /\ workers[w].ret = workers[w].err

(***************************************************************************)
(* The status of a deployment (properties of Spec).                        *)
(***************************************************************************)
\* what C3 speaks about: the status, the outputs and the state blob of a row
Frozen(row) == <<row.Status, row.Outputs, row.TerraformState>>

\* C3 as stated: once a deployment is applied, failed or destroyed, no later
\* operation changes its status, its outputs or its state blob.
TerminalIsFrozen ==
    [][\A id \in DOMAIN deployments :
          deployments[id].Status \in Terminal
             => Frozen(deployments'[id]) = Frozen(deployments[id])]_vars

\* this step belongs to an operation addressed to deployment id: a handler
\* invocation for one of its jobs, DestroyDeployment or CancelDeployment of it
OwnOperation(id) ==
    \/ \E w \in Workers :
          Steps(w) /\ workers[w].caller = "handler" /\ workers[w].id = id
    \/ \E c \in Clients :
          /\ clients[c].pc = "destroy_mark" /\ clients[c].id = id /\ clients'[c] = IdleClient
          /\ deployments' = UpdateStatus(deployments, id, "pending")
    \/ /\ used'.cancels = used.cancels + 1
       /\ deployments' = UpdateStatus(deployments, id, "failed")

\* C3, amended: once a deployment is applied, failed or destroyed, its status,
\* outputs and state blob are changed only by an operation addressed to that
\* deployment: a handler invocation for one of its jobs (its destroy job, a
\* re-delivered job), DestroyDeployment, which sets it to pending, or
\* CancelDeployment, which sets it to failed.  CreateDeployment and the
\* operations on other deployments never change it.
TerminalChangedOnlyByOwnOperation ==
    [][\A id \in DOMAIN deployments :
          (deployments[id].Status \in Terminal
              /\ Frozen(deployments'[id]) # Frozen(deployments[id]))
             => OwnOperation(id)]_vars

\* C3 happens: a deployment is applied, failed or destroyed while a handler
\* invocation for another deployment has written a status
TerminalBesideRunningHandler ==
    \E id \in DOMAIN deployments, w \in Workers :
        /\ deployments[id].Status \in Terminal
        /\ workers[w].caller = "handler" /\ workers[w].id # id
        /\ workers[w].statusWrites # <<>>

Edges ==
    {<<"pending", "planning">>, <<"planning", "applying">>, <<"applying", "applied">>,
     <<"applying", "failed">>, <<"pending", "destroying">>, <<"destroying", "destroyed">>,
     <<"destroying", "failed">>}

\* this step is made by a handler or by DestroyDeployment
HandlerOrDestroyRequestStep ==
    \/ \E w \in Workers : Steps(w) /\ workers[w].caller = "handler"
    \/ \E c \in Clients : clients[c].pc = "destroy_mark" /\ clients'[c] # clients[c]

\* C4 as stated: every change of a deployment's status made by
\* HandleProvision, HandleDestroy or DestroyDeployment is one of the edges.
StatusChangesAlongEdges ==
    [][\A id \in DOMAIN deployments :
          (HandlerOrDestroyRequestStep /\ deployments'[id].Status # deployments[id].Status)
             => <<deployments[id].Status, deployments'[id].Status>> \in Edges]_vars

IsPrefix(s, t) == Len(s) <= Len(t) /\ \A i \in DOMAIN s : s[i] = t[i]

\* the status writes one invocation of a handler may issue, in order
WritePaths(job) ==
    IF job = "provision"
    THEN {<<"planning", "applying", "applied">>, <<"planning", "applying", "failed">>,
          <<"planning", "failed">>}
    ELSE {<<"destroying", "destroyed">>, <<"destroying", "failed">>}

\* C4, amended: the status writes of one HandleProvision invocation are
\* planning, then failed (a load failed) or applying and then applied or
\* failed; those of one HandleDestroy invocation are destroying, then
\* destroyed or failed; DestroyDeployment writes pending.  A handler changes
\* the stored status only by these writes, whatever status they replace, and
\* by SaveState's update of the whole row, which puts back the status
\* SaveState had read.
StatusWritesFollowPaths ==
    [][/\ \A w \in Workers :
            LET me == workers[w]
                now == workers'[w]
            IN  /\ now.caller = "handler" =>
                     \E path \in WritePaths(now.job) : IsPrefix(now.statusWrites, path)
                /\ (Steps(w) /\ me.caller = "handler" /\ RowExists(me.id)
                      /\ deployments'[me.id].Status # deployments[me.id].Status)
                     => \/ now.statusWrites = Append(me.statusWrites, deployments'[me.id].Status)
                        \/ /\ me.pc = "save_upd" /\ now.statusWrites = me.statusWrites
                           /\ deployments'[me.id].Status = me.row.Status
       /\ \A c \in Clients :
            (clients[c].pc = "destroy_mark" /\ clients'[c] # clients[c])
               => deployments' \in {deployments, UpdateStatus(deployments, clients[c].id, "pending")}
      ]_vars

\* C4 happens: an invocation of HandleProvision whose load failed is done, its
\* status writes being planning, failed
LoadFailureWrotePlanningFailed ==
    \E w \in Workers :
        /\ ProvisionDone(w)
        /\ workers[w].statusWrites = <<"planning", "failed">>
        /\ deployments[workers[w].id].Status = "failed"

(***************************************************************************)
(* HandleDestroy (properties of DestroySpec).                              *)
(***************************************************************************)
\* worker w's HandleDestroy invocation is about to return
DestroyDone(w) == workers[w].pc = "done" /\ workers[w].job = "destroy"

\* no job was redelivered and nothing more was requested for a deployment
\* since the destroy job was enqueued: one handler at most works on it
OneHandlerPerDeployment == used.redeliver = 0 /\ used.destroys = 0 /\ used.cancels = 0

\* what a step of worker w's HandleDestroy respects according to C11
DestroySuccessStep(w) ==
    LET me == workers[w]
        now == workers'[w]
    IN  \* Destroy is called with the blob stored on the deployment
        /\ (me.pc = "load_state" /\ now.pc = "destroy_start")
              => now.state = deployments[me.id].TerraformState
        /\ (me.pc # "done" /\ now.pc = "done" /\ now.job = "destroy"
                /\ Has(now, "tf_destroy") /\ now.err = NoError)
              => /\ now.statusWrites = <<"destroying", "destroyed">>
                 /\ now.logWrites = <<InfoEntry("destroy completed")>>
                 /\ now.ret = NoError
                 \* cleared: the column holds none of the blobs apply returns
                 /\ deployments'[now.id].TerraformState \notin ApplyBlobs

\* C11 as stated, for deployments one handler at most works on: a HandleDestroy
\* invocation whose Destroy succeeds writes the statuses destroying then
\* destroyed, calls Destroy with the stored state blob, appends one info log
\* "destroy completed", returns no error, and the stored state ends cleared.
DestroySuccessClearsState ==
    [][OneHandlerPerDeployment' => \A w \in Workers : DestroySuccessStep(w)]_vars

\* C12: a HandleDestroy invocation whose Destroy returns an error issues
\* exactly the status writes destroying, failed and exactly one log, of level
\* error and message "destroy error: <cause>"; neither the handler nor Destroy
\* writes the state blob, which stays as it was loaded, and the handler returns
\* the error Destroy returned.
FailedDestroyWrites ==
    \A w \in Workers :
        LET me == workers[w] IN
        (DestroyDone(w) /\ me.err # NoError) =>
            /\ me.statusWrites = <<"destroying", "failed">>
            /\ me.logWrites = <<ErrorEntry("destroy error: " \o me.err)>>
            /\ me.stateWrites = <<>>
            /\ me.outputWrites = <<>>
            /\ ~Has(me, "save_state") /\ ~Has(me, "save_state_failed")
            /\ me.ret = me.err
            /\ OneHandlerPerDeployment =>
                 deployments[me.id].TerraformState = me.state

\* C12 happens: the external destroy of a deployment with a stored blob failed,
\* the handler is about to return that error and the blob is still stored
DestroyFailedInTool ==
    \E w \in Workers :
        /\ DestroyDone(w) /\ workers[w].err # NoError /\ Has(workers[w], "tf_destroy")
        /\ workers[w].ret = workers[w].err
        /\ deployments[workers[w].id].Status = "failed"
        /\ deployments[workers[w].id].TerraformState \in ApplyBlobs

(***************************************************************************)
(* A graph that does not validate (properties of Spec).                    *)
(***************************************************************************)
\* the first node of worker w's graph lacks a property its type requires
FirstNodeLacksRequired(w) ==
    LET g == Graphs[workers[w].graph] IN
    /\ g.NodesJSON /\ g.Nodes # <<>>
    /\ g.Nodes[1].Type \in ResourceTypes
    /\ FirstMissing(Required(g.Nodes[1].Type), g.Nodes[1].Properties) # ""

\* the error Apply returns for such a graph
ValidationError(w) ==
    LET n == Graphs[workers[w].graph].Nodes[1] IN
    "compile graph: validation failed for " \o n.ID \o ": missing required field: "
        \o FirstMissing(Required(n.Type), n.Properties)

\* C13: when a node of the graph fails validation, the provision fails at
\* compilation, before any working directory is created and before any
\* step of the external tool: Apply's only step is the compilation, the
\* handler writes the status failed, its one log is the error that names
\* "validation failed for <nodeID>", and it returns that error.
ValidationFailureStopsProvision ==
    \A w \in Workers :
        LET me == workers[w] IN
        (ProvisionDone(w) /\ Has(me, "compile") /\ FirstNodeLacksRequired(w)) =>
            /\ me.err = ValidationError(w)
            /\ me.events = <<"compile">>
            /\ me.dir = NoDir
            /\ me.res.isNil
            /\ me.statusWrites = <<"planning", "applying", "failed">>
            /\ me.logWrites = <<ErrorEntry("apply error: " \o ValidationError(w))>>
            /\ me.ret = me.err
            /\ Disturbances = 0 =>
                 /\ deployments[me.id].Status = "failed"
                 /\ deployments[me.id].Outputs.logs = me.logWrites
                 /\ me.id \notin disk.parent
                 /\ \A d \in DOMAIN disk.leaf : d[1] # me.id

\* C13 happens: the provision of the graph whose instance has no ami is done,
\* the deployment is failed and its log names the node
InvalidGraphProvisionFailed ==
    \E w \in Workers :
        /\ ProvisionDone(w) /\ workers[w].graph = "g_noami"
        /\ deployments[workers[w].id].Status = "failed"
        /\ deployments[workers[w].id].Outputs.logs =
             <<ErrorEntry("apply error: compile graph: validation failed for n1: "
                            \o "missing required field: ami")>>

(***************************************************************************)
(* How a handler's failure shows on the deployment (property of Spec).     *)
(***************************************************************************)
\* C14 as stated: whenever HandleProvision or HandleDestroy returns an error
\* (a load failed, the graph's JSON is malformed, or the provisioner failed),
\* the invocation has set the status failed and has appended exactly one log
\* entry, of level error.
HandlerErrorSurfaces ==
    \A w \in Workers :
        LET me == workers[w] IN
        (me.pc = "done" /\ me.ret # NoError) =>
            /\ me.statusWrites # <<>>
            /\ me.statusWrites[Len(me.statusWrites)] = "failed"
            /\ Len(me.logWrites) = 1
            /\ me.logWrites[1].Level = "error"

(***************************************************************************)
(* The compiler (properties of CompileSpec).                               *)
(***************************************************************************)
\* a property the node's type requires is absent from the node
LacksRequired(node) == FirstMissing(Required(node.Type), node.Properties) # ""

\* C15 as stated: for every supported type and every property map, Compile of
\* the graph of that one node fails if and only if a required property of the
\* type is absent.
CompileFailsIffRequiredAbsent ==
    (/\ compiled # NotCompiled
     /\ Len(request.Nodes) = 1
     /\ request.Nodes[1].Type \in ResourceTypes)
      => ((compiled.err # NoError \/ compiled.panic) <=> LacksRequired(request.Nodes[1]))

\* the positions of the nodes whose type is outside the catalog
UnknownAt == {i \in DOMAIN request.Nodes : request.Nodes[i].Type = UnknownType}

\* C16 as stated: if any node has a type outside the catalog, Compile returns
\* the unsupported-resource-type error and no code at all, whatever the other
\* nodes and their positions are.
UnknownTypeAlwaysUnsupported ==
    (compiled # NotCompiled /\ UnknownAt # {}) =>
        /\ compiled.err = "unsupported resource type: " \o UnknownType
        /\ ~compiled.panic
        /\ ~compiled.hasCode /\ compiled.code = EmptyCode

\* the first position at which Compile's loop stops: a node of unknown type,
\* one that lacks a required property, or a security group it cannot compile
Stops(node) == node.Type = UnknownType \/ LacksRequired(node) \/ ResourcePanics(node)

FirstStop ==
    CHOOSE i \in DOMAIN request.Nodes :
        /\ Stops(request.Nodes[i])
        /\ \A j \in 1..(i - 1) : ~Stops(request.Nodes[j])

\* C16, amended: if any node has a type outside the catalog, Compile returns
\* no code at all; what it returns instead is decided by the first node in
\* graph order that stops the loop: the unsupported-resource-type error when
\* that is the node of unknown type, the validation error of an earlier node
\* that lacks a required property, or no return at all (a panic) at an
\* earlier security group whose ingress list holds an entry that is no object.
UnknownTypeYieldsNoCode ==
    (compiled # NotCompiled /\ UnknownAt # {}) =>
        LET n == request.Nodes[FirstStop] IN
        /\ ~compiled.hasCode /\ compiled.code = EmptyCode
        /\ compiled.err # NoError
        /\ n.Type = UnknownType
              => compiled.err = "unsupported resource type: " \o UnknownType
                   /\ ~compiled.panic
        /\ (n.Type # UnknownType /\ LacksRequired(n))
              => compiled.err = "validation failed for " \o n.ID \o ": " \o Validate(n)
                   /\ ~compiled.panic
        /\ (n.Type # UnknownType /\ ~LacksRequired(n)) => compiled.panic

\* C16 happens: Compile was given a valid instance followed by a node of
\* unknown type and returned the unsupported-resource-type error and no code
UnknownAfterValidRejected ==
    /\ Len(request.Nodes) = 2
    /\ request.Nodes[1].Type = "aws_instance" /\ ~LacksRequired(request.Nodes[1])
    /\ request.Nodes[2].Type = UnknownType
    /\ compiled.err = "unsupported resource type: " \o UnknownType
    /\ ~compiled.hasCode

(***************************************************************************)
(* Destroy without any state (properties of ProvSpec).                     *)
(***************************************************************************)
\* what one step of worker w's Destroy respects, when it was passed no state,
\* the store held no blob when it was called, and no other call runs beside it
StatelessDestroyStep(w) ==
    LET me == workers[w]
        now == workers'[w]
    IN  (/\ now.op = "Destroy" /\ now.pc \notin {"idle", "destroy_start"}
         /\ Has(now, "get_state") /\ now.before = NoBlob /\ now.alone) =>
          \* nothing comes out of the store and no state file is written
          /\ now.state = NoBlob
          /\ ~Has(now, "write_state")
          /\ DirExists(disk', now.dir) => disk'.leaf[now.dir].tfstate = NoBlob
          \* Initialize gets the empty code bundle and runs before the destroy
          /\ (me.pc = "init" /\ now.pc = "run") => disk'.leaf[now.dir].code = EmptyCode
          /\ Has(now, "tf_destroy") => Has(now, "initialize")
          /\ Before(now, "initialize", "tf_destroy")
          \* it returns success unless one of its steps failed
          /\ now.pc = "returned" =>
                /\ now.err = NoError =>
                     /\ now.res = DestroyResult
                     /\ \E saved \in {"save_state", "save_state_failed"} :
                          now.events = <<"get_state", "initialize", "tf_destroy", saved, "cleanup">>
                /\ used'.faults = 0 => now.err = NoError

\* C17: a Destroy called with an empty state argument for a deployment whose
\* store holds no blob writes no state file, runs Initialize with the empty
\* code bundle and then the external destroy, and, when none of these steps
\* fails, returns Success = true with no error.
StatelessDestroySucceeds == [][\A w \in Workers : StatelessDestroyStep(w)]_vars

\* C17 happens: such a Destroy has initialized, destroyed and returned success
StatelessDestroyReturned ==
    \E w \in Workers :
        /\ Returned(w, "Destroy") /\ workers[w].before = NoBlob /\ workers[w].alone
        /\ workers[w].state = NoBlob /\ RowExists(workers[w].id)
        /\ workers[w].events = <<"get_state", "initialize", "tf_destroy", "save_state", "cleanup">>
        /\ workers[w].res = DestroyResult /\ workers[w].err = NoError

(***************************************************************************)
(* One working directory per call (property of ProvSpec).                  *)
(***************************************************************************)
\* worker w is inside a call that has chosen its working directory
InCall(w) == workers[w].pc \notin {"idle", "returned"} /\ workers[w].dir # NoDir

\* no step of one call removes the directory another running call holds
CleanupSparesOthers ==
    \A w \in Workers :
        (InCall(w) /\ workers'[w] = workers[w] /\ DirExists(disk, workers[w].dir))
            => DirExists(disk', workers[w].dir)

\* C20 as stated: two lifecycle calls for the same deployment never use the
\* same working directory, so the Cleanup of one call never removes a
\* directory another call is still using.
WorkingDirsNeverShared ==
    [][/\ \A v, w \in Workers :
            (v # w /\ InCall(v)' /\ InCall(w)') => workers'[v].dir # workers'[w].dir
       /\ CleanupSparesOthers]_vars

(***************************************************************************)
(* The deployments of a project (property of Spec).                        *)
(***************************************************************************)
NonTerminal == {"pending", "planning", "applying", "destroying"}

\* C18 as stated: in every reachable state the project has at most one
\* deployment whose status is pending, planning, applying or destroying.
OneNonTerminalPerProject ==
    \A p \in {Project.ID} :
        Cardinality({id \in DOMAIN deployments :
                        /\ deployments[id].ProjectID = p
                        /\ deployments[id].Status \in NonTerminal}) <= 1

(***************************************************************************)
(* Cancelling (properties of Spec).                                        *)
(***************************************************************************)
\* this step is a CancelDeployment
CancelStep == used'.cancels = used.cancels + 1

\* a worker inside a handler can take its next step
HandlersGoOn == \A w \in Workers : workers[w].pc # "idle" => ENABLED WorkerStep(w)

\* C19: CancelDeployment only sets the status of the deployment to failed: the
\* state blob, the outputs and the log stay as they are, no job is enqueued or
\* removed, nothing on disk is touched, and a handler that runs for the
\* deployment is not touched either: it stays where it is and, in every state
\* before and after, can take its next step.
CancelOnlyMarksFailed ==
    /\ [][CancelStep =>
            /\ \E id \in DOMAIN deployments :
                 deployments' = [deployments EXCEPT ![id].Status = "failed"]
            /\ UNCHANGED <<queue, delivered, workers, disk>>]_vars
    /\ []HandlersGoOn

\* C19 happens: the deployment was cancelled while its handler was between
\* Initialize and terraform apply; the row is failed and the handler, which has
\* written planning and applying, is about to run terraform apply
CancelledWhileApplying ==
    \E w \in Workers :
        /\ used.cancels = 1
        /\ workers[w].job = "provision" /\ workers[w].pc = "run"
        /\ workers[w].statusWrites = <<"planning", "applying">>
        /\ deployments[workers[w].id].Status = "failed"
        /\ ENABLED ApplyStep(w)

(***************************************************************************)
(* The state store (property of StoreSpec).                                *)
(***************************************************************************)
\* GetState has read what the last SaveState, which succeeded, had stored
ReadBack == store.saved # NoArg /\ store.err = NoError /\ store.got.err = NoError
                /\ store.got # NotRead

Count(me, event) == Cardinality({i \in DOMAIN me.events : me.events[i] = event})

\* the positions of a worker inside a call of the provisioner
ProvisionerPcs == {"compile", "init", "run", "destroy_start", "destroy_seed",
                   "save_get", "save_upd"}

ExternalSteps == {"initialize", "tf_plan", "tf_apply", "tf_destroy"}

\* what one step of worker w respects: the provisioner is entered once, each
\* external step runs once, and nothing runs after a failure
NoRetryStep(w) ==
    LET me == workers[w]
        now == workers'[w]
    IN  /\ (me.pc \notin ProvisionerPcs /\ now.pc \in ProvisionerPcs)
              => /\ me.pc \in {"mark_applying", "load_state"}
                 /\ me.events = <<>> /\ me.err = NoError /\ me.res = NilResult
        /\ (me.pc \in ProvisionerPcs /\ now.pc \notin ProvisionerPcs) => now.events # <<>>
        /\ \A e \in ExternalSteps \cup {"compile"} : Count(now, e) <= 1
        /\ Before(now, "initialize", "tf_apply") /\ Before(now, "initialize", "tf_destroy")
        /\ (now.job = "provision" => ~Has(now, "tf_destroy"))
        /\ (now.job = "destroy" => ~Has(now, "tf_apply") /\ ~Has(now, "compile"))
        /\ (me.err # NoError /\ me.pc # "idle" /\ now.pc # "idle")
              => now.events = me.events /\ now.pc \notin ProvisionerPcs

\* C22: one HandleProvision invocation calls Apply at most once, one
\* HandleDestroy invocation calls Destroy at most once, one call of the
\* provisioner runs Initialize and its terraform step at most once each, and
\* after a failure the handler runs no further step of the provisioner: it
\* logs, marks and returns to the queue.
NoInternalRetries == [][\A w \in Workers : NoRetryStep(w)]_vars

\* C22 happens: terraform apply failed, ran once, and the handler is about to
\* return the error to the queue
FailedOnceAndReturned ==
    \E w \in Workers :
        /\ ProvisionDone(w) /\ workers[w].err # NoError
        /\ workers[w].events = <<"compile", "initialize", "tf_apply", "cleanup">>
        /\ workers[w].ret = workers[w].err

(***************************************************************************)
(* Re-delivered provision jobs (properties of Spec).                       *)
(***************************************************************************)
\* what one step of a provision handler on worker w respects, whatever the
\* row's status: planning is written, the graph is loaded, applying is
\* written, and Apply is called
RerunStep(w) ==
    LET me == workers[w]
        now == workers'[w]
    IN  /\ (me.pc = "idle" /\ now.job = "provision")
              => now.pc = "mark_planning" /\ now.statusWrites = <<>>
        /\ (me.job = "provision" /\ me.pc = "mark_planning" /\ now # me)
              => now.pc = "load" /\ now.statusWrites = <<"planning">>
        /\ (me.job = "provision" /\ me.pc = "load" /\ now # me)
              => \/ now.pc = "mark_applying"
                 \/ now.pc = "mark_failed"
                      /\ now.ret \in {DbErrorMessage(me.id), "unmarshal nodes failed"}
        /\ (me.job = "provision" /\ me.pc = "mark_applying" /\ now # me)
              => /\ now.pc = "compile" /\ now.op = "Apply" /\ now.events = <<>>
                 /\ now.statusWrites = <<"planning", "applying">>

\* C23: a provision job, re-delivered or not, writes planning, then applying,
\* and calls Apply, whatever the status of its deployment (applied, failed
\* or any other) when it is delivered: no step of the handler reads the
\* status to skip the work.
RedeliveredJobRunsAgain == [][\A w \in Workers : RerunStep(w)]_vars

\* C23 happens: the deployment was applied and its state saved by an earlier
\* delivery, the job was delivered again, and the handler is inside Apply for
\* the second time
AppliedDeploymentAppliedAgain ==
    \E w \in Workers :
        LET me == workers[w] IN
        /\ me.job = "provision" /\ me.pc = "init" /\ me.op = "Apply"
        /\ me.statusWrites = <<"planning", "applying">>
        /\ used.redeliver = 1
        /\ deployments[me.id].TerraformState \in ApplyBlobs
        /\ \A o \in Workers \ {w} : workers[o].pc = "idle"

(***************************************************************************)
(* Provision and destroy of one deployment at once (properties of Spec).   *)
(***************************************************************************)
\* worker w is inside the terraform step of op for deployment id
InTerraform(w, op, id) ==
    /\ workers[w].caller = "handler" /\ workers[w].pc = "run"
    /\ workers[w].op = op /\ workers[w].id = id

\* the destroy job of deployment id is delivered to worker w
DeliverDestroy(w, id) ==
    Deliver(w) /\ workers'[w].job = "destroy" /\ workers'[w].id = id

\* C24: nothing excludes a destroy handler from a deployment whose provision
\* handler is still at work: while a worker is anywhere inside HandleProvision
\* for a deployment, a queued destroy job of the same deployment can be
\* delivered to any idle worker, and every later step of either handler
\* stays possible, so that terraform apply and terraform destroy of one
\* deployment run at the same time.
ProvisionDoesNotExcludeDestroy ==
    \A p, d \in Workers, id \in Ids :
        /\ (/\ workers[p].caller = "handler" /\ workers[p].job = "provision"
            /\ workers[p].id = id /\ workers[p].pc # "idle"
            /\ FirstIdle(d) /\ queue[<<"destroy", id>>] > 0)
              => ENABLED DeliverDestroy(d, id)
        /\ (InTerraform(p, "Apply", id) /\ InTerraform(d, "Destroy", id))
              => ENABLED ApplyStep(p) /\ ENABLED DestroyStep(d)

\* C24 happens: terraform apply and terraform destroy of one deployment run
\* at the same time
ApplyAndDestroyAtOnce ==
    \E p, d \in Workers, id \in DOMAIN deployments :
        InTerraform(p, "Apply", id) /\ InTerraform(d, "Destroy", id)

(***************************************************************************)
(* What Compile depends on (properties of CompileSpec).                    *)
(***************************************************************************)
RequestConfig == [Provider |-> request.Provider, Region |-> request.Region]

\* C25: what Compile makes of a graph is what it makes of the same nodes
\* without any edge, code or error alike; and the code it returns has, in the
\* order of the nodes, one resource fragment per node and one output named
\* after the node's ID followed by _id.
CompileIgnoresEdges ==
    compiled # NotCompiled =>
        /\ compiled = Compile([Nodes |-> request.Nodes, Edges |-> {}], RequestConfig)
        /\ compiled.hasCode =>
              /\ Len(compiled.code.MainTF) = Len(request.Nodes)
              /\ Len(compiled.code.OutputsTF) = Len(request.Nodes)
              /\ \A i \in DOMAIN request.Nodes :
                    /\ compiled.code.MainTF[i] = <<request.Nodes[i].Type, request.Nodes[i].ID>>
                    /\ compiled.code.OutputsTF[i][1] = request.Nodes[i].ID \o "_id"

\* C25 happens: a graph of an instance and a bucket with an edge from the
\* second to the first was compiled, instance first
EdgedGraphCompiledInNodeOrder ==
    /\ request.Edges # {} /\ Len(request.Nodes) = 2
    /\ compiled.hasCode
    /\ compiled.code.MainTF = <<<<"aws_instance", "n1">>, <<"aws_s3_bucket", "n2">>>>

\* the node passes the catalog, its validation and its compilation
Compilable(node) ==
    /\ node.Type # UnknownType
    /\ ~LacksRequired(node)
    /\ ~ResourcePanics(node)

\* C26: with a provider other than aws, Compile fails exactly when it fails
\* with aws, and with the same error; a graph whose nodes all compile yields
\* code, and the provider segment of that code is empty.
UnknownProviderCompilesEmpty ==
    (compiled # NotCompiled /\ request.Provider # "aws") =>
        LET aws == Compile([Nodes |-> request.Nodes, Edges |-> request.Edges],
                           [Provider |-> "aws", Region |-> request.Region])
        IN  /\ compiled.err = aws.err /\ compiled.panic = aws.panic
            /\ compiled.hasCode = aws.hasCode
            /\ (\A i \in DOMAIN request.Nodes : Compilable(request.Nodes[i]))
                  => compiled.hasCode /\ compiled.err = NoError
            /\ compiled.hasCode =>
                  /\ compiled.code.ProviderTF = <<>>
                  /\ compiled.code.MainTF = aws.code.MainTF
                  /\ compiled.code.OutputsTF = aws.code.OutputsTF

\* C26 happens: a graph of two valid nodes was compiled for the provider gcp
UnknownProviderCompiled ==
    /\ request.Provider = "gcp" /\ Len(request.Nodes) = 2
    /\ compiled.hasCode /\ compiled.code.ProviderTF = <<>>
    /\ Len(compiled.code.MainTF) = 2

(***************************************************************************)
(* HandleProvision and Plan (properties of Spec).                          *)
(***************************************************************************)
\* C27: a provision handler calls no operation of the provisioner but Apply:
\* terraform plan never runs in it, nothing of the provisioner has run when
\* it writes applying, and the status it writes after planning is applying
\* (or failed, when the loads fail).
HandleProvisionNeverPlans ==
    \A w \in Workers :
        LET me == workers[w] IN
        (me.caller = "handler" /\ me.job = "provision") =>
            /\ me.op \in {"none", "Apply"}
            /\ ~Has(me, "tf_plan")
            /\ me.pc \in {"mark_planning", "load", "mark_applying"}
                  => me.events = <<>> /\ me.op = "none"
            /\ Len(me.statusWrites) >= 1 => me.statusWrites[1] = "planning"
            /\ Len(me.statusWrites) >= 2 => me.statusWrites[2] \in {"applying", "failed"}
            /\ Has(me, "compile")
                  => Len(me.statusWrites) >= 2 /\ me.statusWrites[2] = "applying"

\* C27 happens: a provision handler went from planning to applying to applied
\* and the only terraform step it ran is apply
ProvisionedWithoutPlan ==
    \E w \in Workers :
        LET me == workers[w] IN
        /\ me.caller = "handler" /\ me.job = "provision" /\ me.op = "Apply"
        /\ me.pc = "done"
        /\ me.statusWrites = <<"planning", "applying", "applied">>
        /\ Has(me, "tf_apply") /\ ~Has(me, "tf_plan")

(***************************************************************************)
(* The state Destroy works on (properties of ProvSpec).                    *)
(***************************************************************************)
\* what one step of a Destroy call on worker w respects; at destroy_start the
\* worker's state is the argument of the call
DestroyStateStep(w) ==
    LET me == workers[w]
        now == workers'[w]
    IN  me.op = "Destroy" =>
          /\ (me.pc = "destroy_start" /\ now.pc # "destroy_start")
                => /\ Has(now, "get_state") <=> Len0(me.state)
                   /\ ~Len0(me.state) => now.state = me.state /\ now.pc = "destroy_seed"
          /\ (me.pc # "destroy_start" /\ now.pc # "idle")
                => (Has(now, "get_state") <=> Has(me, "get_state"))
          /\ (me.pc = "destroy_seed" /\ Has(now, "write_state"))
                => /\ now.state = me.state
                   /\ DirExists(disk', me.dir) /\ disk'.leaf[me.dir].tfstate = me.state
          /\ (me.pc = "init" /\ now.pc = "run")
                => /\ DirExists(disk', me.dir)
                   /\ disk'.leaf[me.dir].hasCode /\ disk'.leaf[me.dir].code = EmptyCode

\* C28: Destroy calls GetState exactly when the state it was passed is empty;
\* a state that was passed is the one written to terraform.tfstate, whatever
\* is stored; and the code Initialize writes for Destroy is the empty bundle.
DestroyReadsStoreIffNoArgument == [][\A w \in Workers : DestroyStateStep(w)]_vars

\* C28 happens: Destroy was passed b1 while something else was stored, did not
\* ask the store, wrote b1 as the state file and initialized with no code
PassedStateSeeded ==
    \E w \in Workers :
        LET me == workers[w] IN
        /\ me.caller = "direct" /\ me.op = "Destroy" /\ me.pc = "run"
        /\ ~Has(me, "get_state") /\ Has(me, "write_state")
        /\ me.before \in {NullJSON, "b2"} /\ deployments[me.id].TerraformState = me.before
        /\ DirExists(disk, me.dir)
        /\ disk.leaf[me.dir].tfstate = "b1" /\ disk.leaf[me.dir].code = EmptyCode

(***************************************************************************)
(* The log of a deployment (properties of Spec).                           *)
(***************************************************************************)
\* the entries of a appear in b in the same order
RECURSIVE IsSubsequence(_, _)
IsSubsequence(a, b) ==
    IF a = <<>> THEN TRUE
    ELSE IF b = <<>> THEN FALSE
    ELSE IF Head(a) = Head(b) THEN IsSubsequence(Tail(a), Tail(b))
    ELSE IsSubsequence(a, Tail(b))

\* the log entries stored for deployment id
LogsOf(table, id) == table[id].Outputs.logs

\* C29 as stated: no step removes or reorders a log entry of a deployment:
\* the entries stored before the step are among those stored after it, in the
\* same order.
LogsAppendOnly ==
    [][\A id \in DOMAIN deployments :
          IsSubsequence(LogsOf(deployments, id), LogsOf(deployments', id))]_vars

(***************************************************************************)
(* Destroy after the state was cleared (properties of DestroySpec).        *)
(***************************************************************************)
\* C30 as stated: a Destroy that finds the cleared state, read by GetState or
\* passed by HandleDestroy from the row, works as without any blob: it writes
\* no state file, so its working directory never holds one.
ClearedStateSeedsNothing ==
    \A w \in Workers :
        LET me == workers[w] IN
        (me.op = "Destroy" /\ me.state = NullJSON) =>
            /\ ~Has(me, "write_state")
            /\ DirExists(disk, me.dir) => disk.leaf[me.dir].tfstate = NoBlob

(***************************************************************************)
(* Every invocation ends on a terminal status (properties of HandlerSpec). *)
(***************************************************************************)
\* the statuses an invocation of the job may end on
EndStatuses(job) == IF job = "provision" THEN {"applied", "failed"} ELSE {"destroyed", "failed"}

\* the invocation on worker w has returned, and the last status it wrote is
\* one its job may end on
ReturnedTerminal(w) ==
    LET me == workers[w] IN
    /\ me.pc = "done"
    /\ me.statusWrites # <<>>
    /\ me.statusWrites[Len(me.statusWrites)] \in EndStatuses(me.job)

\* C31 as stated: every invocation of HandleProvision or HandleDestroy
\* eventually returns, with a terminal status as the last one it wrote.
EveryInvocationReturnsTerminal ==
    \A w \in Workers :
        (workers[w].pc \in {"mark_planning", "mark_destroying"}) ~> ReturnedTerminal(w)

(***************************************************************************)
(* The pending write of DestroyDeployment (properties of Spec).            *)
(***************************************************************************)
\* C32 as stated: once DestroyDeployment has done its write of pending and
\* the destroy handler of the deployment has done its last status write, the
\* status of the deployment is not pending.
DestroyNeverEndsPending ==
    \A w \in Workers :
        (/\ DestroyDone(w)
         /\ \A c \in Clients : clients[c].pc = "idle"
         /\ \A o \in Workers \ {w} : workers[o].pc = "idle")
          => deployments[workers[w].id].Status # "pending"

(***************************************************************************)
(* What SaveState writes (properties of Spec).                             *)
(***************************************************************************)
\* C33 as stated: the write of SaveState leaves the status and the outputs
\* (with the log) of the deployment as they were just before it, whatever
\* was written to them since SaveState read the row.
SaveStateWritesOnlyState ==
    [][\A w \in Workers :
          (workers[w].pc = "save_upd" /\ workers'[w].pc # "save_upd")
            => \A id \in DOMAIN deployments :
                  /\ deployments'[id].Status = deployments[id].Status
                  /\ deployments'[id].Outputs = deployments[id].Outputs]_vars

(***************************************************************************)
(* When Destroy clears the stored state (properties of ProvSpec).          *)
(***************************************************************************)
\* C34 as stated: a step of Destroy that replaces a stored blob of an apply by
\* the cleared state belongs to a call that wrote a state file into its
\* working directory and whose terraform destroy succeeded.
DestroyClearsOnlyAfterSeededDestroy ==
    [][\A w \in Workers :
          LET me == workers[w] IN
          (/\ me.op = "Destroy" /\ me.pc = "save_upd"
           /\ RowExists(me.id)
           /\ deployments[me.id].TerraformState \in ApplyBlobs
           /\ deployments'[me.id].TerraformState \notin ApplyBlobs)
            => Has(me, "write_state") /\ Has(me, "tf_destroy")]_vars

(***************************************************************************)
(* The status during the apply (properties of Spec).                       *)
(***************************************************************************)
\* the handler on worker w is inside terraform apply
ApplyRunning(w) ==
    /\ workers[w].caller = "handler" /\ workers[w].job = "provision"
    /\ workers[w].op = "Apply" /\ workers[w].pc = "run"

\* C35 as stated: the handler enters Apply only with the status applying
\* stored by its own write, and while its terraform apply runs the stored
\* status of the deployment is applying.
ApplyRunsUnderApplying ==
    /\ [][\A w \in Workers :
            (workers[w].job = "provision" /\ workers[w].pc = "mark_applying"
             /\ workers'[w].pc = "compile")
              => deployments'[workers[w].id].Status = "applying"]_vars
    /\ [](\A w \in Workers :
            ApplyRunning(w) => deployments[workers[w].id].Status = "applying")

(***************************************************************************)
(* What is stored when applied is read (properties of Spec).               *)
(***************************************************************************)
\* the handler on worker w has written applied and the row shows it
AppliedVisible(w) ==
    /\ ProvisionDone(w)
    /\ workers[w].statusWrites = <<"planning", "applying", "applied">>
    /\ deployments[workers[w].id].Status = "applied"

\* C36 as stated: when the status applied written by a HandleProvision
\* invocation can be read, the row holds the outputs and the state blob that
\* the invocation's Apply returned and the log entry "apply completed".
AppliedImpliesPersisted ==
    \A w \in Workers :
        LET me == workers[w]
            row == deployments[me.id]
        IN  AppliedVisible(w) =>
              /\ ~row.Outputs.null /\ row.Outputs.data = me.res.Outputs
              /\ row.TerraformState = me.res.State
              /\ \E i \in DOMAIN row.Outputs.logs :
                    row.Outputs.logs[i] = InfoEntry("apply completed")

(***************************************************************************)
(* Failed loads in HandleProvision (properties of HandlerSpec).            *)
(***************************************************************************)
\* the graph stored for the deployment has a column json.Unmarshal rejects
Undecodable(id) ==
    LET g == Graphs[deployments[id].GraphID] IN ~g.NodesJSON \/ ~g.EdgesJSON

\* the handler on worker w left its loads without a graph: a load or a
\* decoding failed
LoadFailed(w) ==
    /\ workers[w].caller = "handler" /\ workers[w].job = "provision"
    /\ workers[w].pc \in {"mark_failed", "done"}
    /\ workers[w].graph = "none"

\* C37: a HandleProvision invocation whose stored graph cannot be decoded
\* leaves its loads for the write of failed; and an invocation that left its
\* loads that way returns an error after the status writes planning and
\* failed, has called nothing of the provisioner, and has written no outputs,
\* no state blob.
LoadFailureStopsProvision ==
    /\ [][\A w \in Workers :
            (/\ workers[w].job = "provision" /\ workers[w].pc = "load"
             /\ workers'[w] # workers[w]
             /\ RowExists(workers[w].id) /\ Undecodable(workers[w].id))
              => workers'[w].pc = "mark_failed" /\ workers'[w].graph = "none"]_vars
    /\ [](\A w \in Workers :
            LET me == workers[w] IN
            LoadFailed(w) =>
              /\ me.ret # NoError
              /\ me.op = "none" /\ me.events = <<>> /\ me.res = NilResult
              /\ me.outputWrites = <<>> /\ me.stateWrites = <<>>
              /\ IsPrefix(me.statusWrites, <<"planning", "failed">>)
              /\ me.pc = "done" => me.statusWrites = <<"planning", "failed">>)

\* C37 happens: the edges of the graph could not be decoded, and the handler
\* is about to return that error with the deployment marked failed
UndecodableEdgesMarkedFailed ==
    \E w \in Workers :
        /\ LoadFailed(w) /\ workers[w].pc = "done"
        /\ workers[w].ret = "unmarshal edges failed"
        /\ workers[w].statusWrites = <<"planning", "failed">>
        /\ deployments[workers[w].id].Status = "failed"
        /\ deployments[workers[w].id].TerraformState = NoBlob
        /\ deployments[workers[w].id].Outputs.null

====
